---- MODULE Spec2Model ----
(***************************************************************************)
(* The ingest -> transform -> validate pipeline of sd-traffic-             *)
(* transportation (src/pipeline/*.py) as a state machine over the three    *)
(* storage areas it owns: data/raw, db/*.duckdb and data/aggregated.       *)
(***************************************************************************)
EXTENDS Integers, Sequences, FiniteSets, TLC

(***************************************************************************)
(* Bounds of the model.                                                    *)
(***************************************************************************)
\* processes (python -m pipeline.build / pipeline.validate, or one
\* transform() call) started in one behaviour
MaxRuns == 2
\* failing HTTP exchanges (any response other than 200) in one behaviour
MaxFaults == 1
\* files an operator removes by hand from data/raw or data/aggregated
MaxRemovals == 1
\* snapshot files of the aggregated directory that differ from what a
\* transform run over a healthy corpus writes
MaxDefects == 1
\* records of the raw file that is followed record by record
MaxRecords == 2

(***************************************************************************)
(* ingest.py: the source catalog, in dict (insertion) order.               *)
(***************************************************************************)
SOCRATA_SOURCES ==
    << "transit_ridership", "vmt_pems", "highway_travel_times",
       "switrs_summary", "switrs_detailed", "youth_opp_pass",
       "flexible_fleet" >>

SESHAT_SOURCES ==
    << "traffic_volumes", "traffic_collisions", "transit_routes" >>

\* ingest() walks the JSON sources first, then the CSV sources.
Catalog == SOCRATA_SOURCES \o SESHAT_SOURCES

Range(seq) == { seq[i] : i \in 1..Len(seq) }

Sources == Range(Catalog)

IsCsv(s) == s \in Range(SESHAT_SOURCES)

\* What one HTTP exchange can end in.  "200", "403" and "500" are status
\* codes seen by raise_for_status(); "ConnectError" is a transport error
\* raised before any status is known; "ReadError" is a transport error
\* raised while the body is being read, after the status was accepted.
Responses == { "200", "403", "500", "ConnectError", "ReadError" }

(***************************************************************************)
(* A raw snapshot on disk is an integer: 0 = no file, n > 0 = the complete *)
(* payload downloaded by process n, n < 0 = a file holding only the first  *)
(* chunks of the payload that process -n was streaming.                    *)
(***************************************************************************)
RawExists(p) == p # 0

RawComplete(p) == p > 0

(***************************************************************************)
(* transform.py: the loaders.  Each _load_<x> reads one raw snapshot into  *)
(* one table of the DuckDB file; transform() calls them in this order.     *)
(***************************************************************************)
Loaders ==
    << [src |-> "transit_ridership",    table |-> "transit_ridership"],
       [src |-> "vmt_pems",             table |-> "vmt"],
       [src |-> "highway_travel_times", table |-> "travel_times"],
       [src |-> "switrs_summary",       table |-> "switrs_summary"],
       [src |-> "switrs_detailed",      table |-> "switrs_detailed"],
       [src |-> "youth_opp_pass",       table |-> "youth_opp_pass"],
       [src |-> "flexible_fleet",       table |-> "flexible_fleet"],
       [src |-> "traffic_volumes",      table |-> "traffic_volumes"],
       [src |-> "traffic_collisions",   table |-> "city_collisions"],
       [src |-> "transit_routes",       table |-> "transit_routes"] >>

Tables == { Loaders[i].table : i \in 1..Len(Loaders) }

SourceOfTable(t) == (CHOOSE i \in 1..Len(Loaders) : Loaders[i].table = t)

\* The database files transform(db_path=...) may be pointed at: DB_PATH
\* when db_path is None, or a file of the caller's choosing.
DB_PATH == "db/traffic.duckdb"

DbPaths == { DB_PATH, "other.duckdb" }

\* A table of a database file: absent, or built by transform run `by` from
\* raw payload `src`.
NoTable == [exists |-> FALSE, src |-> 0, by |-> 0]

(***************************************************************************)
(* transform.py, _build_aggregations: the 13 aggregation specs in call     *)
(* order, each with the table of its FROM clause and the columns of its    *)
(* SELECT list.                                                            *)
(***************************************************************************)
AggSpecs ==
    << [name |-> "ridership_trends", table |-> "transit_ridership",
        cols |-> {"year", "total_weekday_boardings", "num_routes"}],
       [name |-> "ridership_by_route", table |-> "transit_ridership",
        cols |-> {"year", "route", "avg_weekday_boardings"}],
       [name |-> "vmt_trends", table |-> "vmt",
        cols |-> {"year", "peak", "freeway", "vmt"}],
       [name |-> "travel_time_trends", table |-> "travel_times",
        cols |-> {"year", "route", "peak", "mean_minutes"}],
       [name |-> "collision_severity", table |-> "switrs_summary",
        cols |-> {"year", "collision_severity", "num_collisions"}],
       [name |-> "collision_by_type", table |-> "switrs_detailed",
        cols |-> {"year", "collision_severity", "type_of_collision",
                  "is_bicycle", "is_pedestrian", "is_motorcycle", "weather",
                  "lighting", "num_collisions", "total_killed",
                  "total_injured"}],
       [name |-> "collision_map_points", table |-> "switrs_detailed",
        cols |-> {"year", "collision_severity", "type_of_collision",
                  "is_bicycle", "is_pedestrian", "is_motorcycle", "latitude",
                  "longitude", "killed_victims", "injured_victims"}],
       [name |-> "city_collision_trends", table |-> "city_collisions",
        cols |-> {"year", "num_collisions", "total_injured", "total_killed"}],
       [name |-> "traffic_volume_trends", table |-> "traffic_volumes",
        cols |-> {"year", "num_counts", "avg_daily_traffic", "total_volume"}],
       [name |-> "traffic_volume_streets", table |-> "traffic_volumes",
        cols |-> {"street_name", "limits", "year", "total_count",
                  "date_count"}],
       [name |-> "youth_pass_trends", table |-> "youth_opp_pass",
        cols |-> {"month", "total_rides", "num_routes", "num_communities"}],
       [name |-> "youth_pass_communities", table |-> "youth_opp_pass",
        cols |-> {"community", "total_rides"}],
       [name |-> "flex_fleet_trends", table |-> "flexible_fleet",
        cols |-> {"month", "location_name", "category", "total_value"}] >>

AggNames == { AggSpecs[i].name : i \in 1..Len(AggSpecs) }

SpecOf(a) == AggSpecs[CHOOSE i \in 1..Len(AggSpecs) : AggSpecs[i].name = a]

(***************************************************************************)
(* A published snapshot (data/aggregated/<name>.parquet) is described by   *)
(* what the validation queries read from it:                               *)
(*   rows        the row count                                             *)
(*   cols        the column names DESCRIBE lists                           *)
(*   ymin, ymax  MIN(year), MAX(year); the distinct years are taken to be  *)
(*               the interval ymin..ymax (empty when ymin > ymax, which is *)
(*               how a file with no non-NULL year is written here)         *)
(*   neg         rows with a negative measure                              *)
(*   oob         rows outside the San Diego bounding box                   *)
(*   nulls       rows with a literal 'NULL' in a categorical column        *)
(*   mb          st_size in whole megabytes                                *)
(* and by its provenance: src is the raw payload the rows come from, by    *)
(* the transform run that wrote the file.                                  *)
(***************************************************************************)
NoFile ==
    [exists |-> FALSE, rows |-> 0, cols |-> {}, ymin |-> 1, ymax |-> 0,
     neg |-> 0, oob |-> 0, nulls |-> 0, mb |-> 0, src |-> 0, by |-> 0]

\* The years a healthy upstream dataset covers, per table (the documented
\* ranges of validate.py's year_checks; the rollup sources have no year).
TableYears(t) ==
    CASE t = "transit_ridership" -> <<2019, 2024>>
      [] t = "vmt"               -> <<2013, 2024>>
      [] t = "travel_times"      -> <<2019, 2024>>
      [] t = "switrs_summary"    -> <<2006, 2024>>
      [] t = "switrs_detailed"   -> <<2006, 2024>>
      [] t = "city_collisions"   -> <<2015, 2026>>
      [] t = "traffic_volumes"   -> <<2005, 2022>>
      [] OTHER                   -> <<1, 0>>

\* The file COPY ... TO '<name>.parquet' writes for spec `a` from a table
\* holding a healthy dataset: the SELECT list's columns, some rows, the
\* table's years, nothing negative, out of bounds or 'NULL', a small file.
Snapshot(a, src, by) ==
    LET sp == SpecOf(a)
        yr == IF "year" \in sp.cols THEN TableYears(sp.table) ELSE <<1, 0>>
    IN  [exists |-> TRUE, rows |-> 12, cols |-> sp.cols,
         ymin |-> yr[1], ymax |-> yr[2],
         neg |-> 0, oob |-> 0, nulls |-> 0, mb |-> 1,
         src |-> src, by |-> by]

(***************************************************************************)
(* transform.py: loading and aggregating.                                  *)
(***************************************************************************)
LoaderOf(t) == Loaders[SourceOfTable(t)]

\* _load_<x>(con): returns before touching the database when the raw file
\* is missing, so a table an earlier run left in the file stays; otherwise
\* DROP TABLE IF EXISTS and CREATE TABLE ... AS SELECT from the raw file.
LoadTable(old, payload, trun) ==
    IF ~RawExists(payload)
    THEN old
    ELSE [exists |-> TRUE, src |-> payload, by |-> trun]

\* transform(), phase 1 & 2: the ten loaders against the connected file.
LoadAll(db, rawdir, trun) ==
    [t \in Tables |-> LoadTable(db[t], rawdir[LoaderOf(t).src], trun)]

\* _try_agg without its except clause: the CatalogException of a missing
\* table leaves the call.
TryAggUncaught(old, a, db, trun) ==
    LET t == db[SpecOf(a).table]
    IN  IF t.exists
        THEN [file |-> Snapshot(a, t.src, trun), raised |-> FALSE]
        ELSE [file |-> old, raised |-> TRUE]

\* _try_agg(con, name, sql): COPY (sql) TO '<name>.parquet'.  A missing
\* table makes COPY raise duckdb.CatalogException before anything is
\* written; the except clause prints a warning and returns.
TryAgg(old, a, db, trun) ==
    LET t == db[SpecOf(a).table]
    IN  IF t.exists
        THEN [file |-> Snapshot(a, t.src, trun), raised |-> FALSE]
        ELSE [file |-> old, raised |-> FALSE]

\* _build_aggregations(con): the 13 _try_agg calls, one after the other; an
\* exception leaving a call would end the sequence there.
RECURSIVE BuildAggregations(_, _, _, _)
BuildAggregations(i, dir, db, trun) ==
    IF i > Len(AggSpecs)
    THEN [dir |-> dir, raised |-> FALSE]
    ELSE LET a == AggSpecs[i].name
             r == TryAgg(dir[a], a, db, trun)
         IN  IF r.raised
             THEN [dir |-> dir, raised |-> TRUE]
             ELSE BuildAggregations(i + 1, [dir EXCEPT ![a] = r.file], db, trun)

(***************************************************************************)
(* validate.py: the check battery.  A check family turns the directory     *)
(* into a sequence of probes, one per _check call it would make:           *)
(*   file     the snapshot the probe reads ("" for the total size)         *)
(*   applies  the guarding `if path.exists()` lets the probe run           *)
(*   binds    the probe's SQL names only columns the file has (DuckDB      *)
(*            raises BinderException otherwise, which validate() does not  *)
(*            catch)                                                       *)
(*   ok       the boolean handed to _check                                 *)
(***************************************************************************)
expected_aggs ==
    << "ridership_trends", "ridership_by_route", "vmt_trends",
       "travel_time_trends", "collision_severity", "collision_by_type",
       "collision_map_points", "city_collision_trends",
       "traffic_volume_trends", "traffic_volume_streets",
       "youth_pass_trends", "flex_fleet_trends" >>

year_checks ==
    << [name |-> "ridership_trends",      lo |-> 2019, hi |-> 2024],
       [name |-> "vmt_trends",            lo |-> 2013, hi |-> 2024],
       [name |-> "travel_time_trends",    lo |-> 2019, hi |-> 2024],
       [name |-> "collision_severity",    lo |-> 2006, hi |-> 2024],
       [name |-> "city_collision_trends", lo |-> 2015, hi |-> 2026],
       [name |-> "traffic_volume_trends", lo |-> 2005, hi |-> 2022] >>

col_checks ==
    << [name |-> "ridership_trends",
        cols |-> <<"year", "total_weekday_boardings">>],
       [name |-> "vmt_trends", cols |-> <<"year", "peak", "freeway", "vmt">>],
       [name |-> "travel_time_trends",
        cols |-> <<"year", "route", "peak", "mean_minutes">>],
       [name |-> "collision_severity",
        cols |-> <<"year", "collision_severity", "num_collisions">>],
       [name |-> "collision_map_points",
        cols |-> <<"year", "latitude", "longitude", "collision_severity">>],
       [name |-> "city_collision_trends",
        cols |-> <<"year", "num_collisions", "total_killed", "total_injured">>],
       [name |-> "youth_pass_trends", cols |-> <<"month", "total_rides">>],
       [name |-> "flex_fleet_trends",
        cols |-> <<"month", "location_name", "category", "total_value">>] >>

\* the three snapshots of the cross-dataset overlap check, in loop order
overlap_names == << "ridership_trends", "vmt_trends", "collision_severity" >>

YearSlack == 2
MinOverlapYears == 3
YouthMaxRows == 100
FlexMaxRows == 5000
FileLimitMB == 10
MapPointsLimitMB == 50
TotalLimitMB == 100

Probe(file, applies, binds, ok) ==
    [file |-> file, applies |-> applies, binds |-> binds, ok |-> ok]

\* Mutant of ExistenceProbes: a missing file is skipped, as the later
\* sections do, instead of failing the check.
ExistenceProbesSkippingMissing(dir) ==
    [i \in 1..Len(expected_aggs) |->
        Probe(expected_aggs[i], dir[expected_aggs[i]].exists, TRUE, TRUE)]

\* 1. File existence: one check per expected name, never skipped.
ExistenceProbes(dir) ==
    [i \in 1..Len(expected_aggs) |->
        Probe(expected_aggs[i], TRUE, TRUE, dir[expected_aggs[i]].exists)]

\* the row-count section without its `continue` on a missing file
RowCountProbesOnMissing(dir) ==
    [i \in 1..Len(expected_aggs) |->
        LET f == dir[expected_aggs[i]]
        IN  Probe(expected_aggs[i], TRUE, TRUE, f.rows > 0)]

\* 2. Row counts: a row count on every expected file that exists.
RowCountProbes(dir) ==
    [i \in 1..Len(expected_aggs) |->
        LET f == dir[expected_aggs[i]]
        IN  Probe(expected_aggs[i], f.exists, TRUE, f.rows > 0)]

\* 3. Year range: SELECT MIN(year), MAX(year); MIN is None on no years.
YearRangeOk(f, lo, hi) ==
    /\ f.ymin <= f.ymax
    /\ f.ymin <= lo + YearSlack
    /\ f.ymax >= hi - YearSlack

YearRangeProbes(dir) ==
    [i \in 1..Len(year_checks) |->
        LET c == year_checks[i]
            f == dir[c.name]
        IN  Probe(c.name, f.exists, "year" \in f.cols,
                  YearRangeOk(f, c.lo, c.hi))]

\* 4. Numeric sanity: three counts of rows WHERE <measure> < 0.
SignProbes(dir) ==
    LET r == dir["ridership_trends"]
        v == dir["vmt_trends"]
        c == dir["city_collision_trends"]
    IN  << Probe("ridership_trends", r.exists,
                 "total_weekday_boardings" \in r.cols, r.neg = 0),
           Probe("vmt_trends", v.exists, "vmt" \in v.cols, v.neg = 0),
           Probe("city_collision_trends", c.exists,
                 {"total_killed", "total_injured"} \subseteq c.cols,
                 c.neg = 0) >>

\* 5. Geographic bounds on collision_map_points.
BoundsProbes(dir) ==
    LET f == dir["collision_map_points"]
    IN  << Probe("collision_map_points", f.exists,
                 {"latitude", "longitude"} \subseteq f.cols, f.oob = 0) >>

\* 6. No literal 'NULL' strings in collision_by_type.
NullStringProbes(dir) ==
    LET f == dir["collision_by_type"]
    IN  << Probe("collision_by_type", f.exists,
                 {"collision_severity", "type_of_collision", "weather",
                  "lighting"} \subseteq f.cols,
                 f.nulls = 0) >>

\* 7. Double-counting guards: row-count ceilings.
DoubleCountProbes(dir) ==
    LET y == dir["youth_pass_trends"]
        x == dir["flex_fleet_trends"]
    IN  << Probe("youth_pass_trends", y.exists, TRUE, y.rows < YouthMaxRows),
           Probe("flex_fleet_trends", x.exists, TRUE, x.rows < FlexMaxRows) >>

\* 8. Column compatibility: DESCRIBE, then one check per expected column.
RECURSIVE ColumnProbes(_, _)
ColumnProbes(i, dir) ==
    IF i > Len(col_checks)
    THEN << >>
    ELSE LET c == col_checks[i]
             f == dir[c.name]
         IN  [j \in 1..Len(c.cols) |->
                 Probe(c.name, f.exists, TRUE, c.cols[j] \in f.cols)]
             \o ColumnProbes(i + 1, dir)

\* 9. File sizes: one check per existing expected file, then the total of
\* the existing expected files, which is checked unconditionally.
RECURSIVE TotalMB(_, _)
TotalMB(i, dir) ==
    IF i > Len(expected_aggs)
    THEN 0
    ELSE (IF dir[expected_aggs[i]].exists THEN dir[expected_aggs[i]].mb ELSE 0)
         + TotalMB(i + 1, dir)

SizeProbes(dir) ==
    [i \in 1..Len(expected_aggs) |->
        LET n == expected_aggs[i]
            limit == IF n = "collision_map_points"
                     THEN MapPointsLimitMB ELSE FileLimitMB
        IN  Probe(n, dir[n].exists, TRUE, dir[n].mb < limit)]
    \o << Probe("", TRUE, TRUE, TotalMB(1, dir) < TotalLimitMB) >>

\* _check counting a failed check as evaluated and as failed
CheckCountingTwice(c, ok) ==
    IF ok
    THEN [c EXCEPT !.passed = @ + 1]
    ELSE [c EXCEPT !.passed = @ + 1, !.failed = @ + 1]

\* _check(name, ok, detail): exactly one of the two counters goes up.
Check(c, ok) ==
    IF ok
    THEN [c EXCEPT !.passed = @ + 1]
    ELSE [c EXCEPT !.failed = @ + 1]

\* The probes of one family in program order: a probe that does not apply
\* is skipped, a probe whose query does not bind raises out of validate(),
\* any other probe is one _check call.
RECURSIVE RunProbes(_, _, _)
RunProbes(probes, i, c) ==
    IF i > Len(probes)
    THEN [c |-> c, raised |-> FALSE]
    ELSE IF ~probes[i].applies
         THEN RunProbes(probes, i + 1, c)
         ELSE IF ~probes[i].binds
              THEN [c |-> c, raised |-> TRUE]
              ELSE RunProbes(probes, i + 1, Check(c, probes[i].ok))

\* 10. Cross-dataset year overlap: SELECT DISTINCT year from each of the
\* three snapshots that exists; the check is made only when at least two
\* of them contributed a set.
Max(a, b) == IF a >= b THEN a ELSE b
Min(a, b) == IF a <= b THEN a ELSE b

OverlapPresent(dir) ==
    { n \in Range(overlap_names) : dir[n].exists }

\* |set.intersection(*overlap_sets.values())| for interval year sets
CommonYears(dir) ==
    LET P  == OverlapPresent(dir)
        lo == CHOOSE m \in { dir[n].ymin : n \in P } :
                  \A n \in P : dir[n].ymin <= m
        hi == CHOOSE m \in { dir[n].ymax : n \in P } :
                  \A n \in P : dir[n].ymax >= m
    IN  IF \E n \in P : dir[n].ymin > dir[n].ymax
        THEN 0
        ELSE Max(0, hi - lo + 1)

\* the overlap section making its check only when all three snapshots exist
RunOverlapNeedingAll(dir, c) ==
    IF \E n \in OverlapPresent(dir) : "year" \notin dir[n].cols
    THEN [c |-> c, raised |-> TRUE]
    ELSE IF Cardinality(OverlapPresent(dir)) >= 3
         THEN [c |-> Check(c, CommonYears(dir) >= MinOverlapYears),
               raised |-> FALSE]
         ELSE [c |-> c, raised |-> FALSE]

RunOverlap(dir, c) ==
    IF \E n \in OverlapPresent(dir) : "year" \notin dir[n].cols
    THEN [c |-> c, raised |-> TRUE]
    ELSE IF Cardinality(OverlapPresent(dir)) >= 2
         THEN [c |-> Check(c, CommonYears(dir) >= MinOverlapYears),
               raised |-> FALSE]
         ELSE [c |-> c, raised |-> FALSE]

\* validate(): the ten numbered sections, in order.
CheckFamilies ==
    << "existence", "row_counts", "year_range", "numeric", "geo_bounds",
       "null_strings", "double_count", "columns", "file_sizes", "overlap" >>

RunFamily(k, dir, c) ==
    CASE CheckFamilies[k] = "existence"   -> RunProbes(ExistenceProbes(dir), 1, c)
      [] CheckFamilies[k] = "row_counts"  -> RunProbes(RowCountProbes(dir), 1, c)
      [] CheckFamilies[k] = "year_range"  -> RunProbes(YearRangeProbes(dir), 1, c)
      [] CheckFamilies[k] = "numeric"     -> RunProbes(SignProbes(dir), 1, c)
      [] CheckFamilies[k] = "geo_bounds"  -> RunProbes(BoundsProbes(dir), 1, c)
      [] CheckFamilies[k] = "null_strings" -> RunProbes(NullStringProbes(dir), 1, c)
      [] CheckFamilies[k] = "double_count" -> RunProbes(DoubleCountProbes(dir), 1, c)
      [] CheckFamilies[k] = "columns"     -> RunProbes(ColumnProbes(1, dir), 1, c)
      [] CheckFamilies[k] = "file_sizes"  -> RunProbes(SizeProbes(dir), 1, c)
      [] CheckFamilies[k] = "overlap"     -> RunOverlap(dir, c)

\* validate(), sections 1 to 10 from section k on with counters c: the
\* counters afterwards, whether a query raised, and the section reached
\* (Len(CheckFamilies) + 1: the summary).
RECURSIVE RunValidate(_, _, _)
RunValidate(k, dir, c) ==
    IF k > Len(CheckFamilies)
    THEN [c |-> c, raised |-> FALSE, at |-> k]
    ELSE LET r == RunFamily(k, dir, c)
         IN  IF r.raised
             THEN [c |-> r.c, raised |-> TRUE, at |-> k]
             ELSE RunValidate(k + 1, dir, r.c)

(***************************************************************************)
(* ingest.py: one download, and what ingest() does with its outcome.       *)
(***************************************************************************)
\* _download_socrata / _download_csv for source s with raw file `old` on
\* disk, when the exchange (if one is made) ends in `resp` and a completed
\* download stores payload `fresh`:
\*   requested  an HTTP request was issued
\*   payload    the raw file afterwards
\*   outcome    "path" (dest returned) or the exception raised
\* The JSON download writes the file only after the whole body was read and
\* parsed; the CSV download opens the file for writing once the status was
\* accepted and appends chunk by chunk, so a transport error while reading
\* leaves the chunks written so far.
\* Mutant of Download: the `dest.exists() and not force` test is lost.
DownloadIgnoringCache(s, forced, old, resp, fresh) ==
    CASE resp = "200" ->
            [requested |-> TRUE, payload |-> fresh, outcome |-> "path"]
      [] resp = "403" ->
            [requested |-> TRUE, payload |-> old,
             outcome |-> "HTTPStatusError403"]
      [] resp = "500" ->
            [requested |-> TRUE, payload |-> old, outcome |-> "HTTPStatusError"]
      [] resp = "ConnectError" ->
            [requested |-> TRUE, payload |-> old, outcome |-> "ConnectError"]
      [] resp = "ReadError" ->
            [requested |-> TRUE,
             payload |-> IF IsCsv(s) THEN 0 - fresh ELSE old,
             outcome |-> "ReadError"]

\* _download_socrata / _download_csv with `and not force` lost: an existing
\* file is returned whatever the flag says.
DownloadIgnoringForce(s, forced, old, resp, fresh) ==
    IF RawExists(old)
    THEN [requested |-> FALSE, payload |-> old, outcome |-> "path"]
    ELSE CASE resp = "200" ->
                [requested |-> TRUE, payload |-> fresh, outcome |-> "path"]
           [] resp = "403" ->
                [requested |-> TRUE, payload |-> old,
                 outcome |-> "HTTPStatusError403"]
           [] resp = "500" ->
                [requested |-> TRUE, payload |-> old,
                 outcome |-> "HTTPStatusError"]
           [] resp = "ConnectError" ->
                [requested |-> TRUE, payload |-> old,
                 outcome |-> "ConnectError"]
           [] resp = "ReadError" ->
                [requested |-> TRUE,
                 payload |-> IF IsCsv(s) THEN 0 - fresh ELSE old,
                 outcome |-> "ReadError"]

\* the download functions opening dest for writing before the status is
\* looked at: an error status leaves an empty file
DownloadOpeningFirst(s, forced, old, resp, fresh) ==
    IF RawExists(old) /\ ~forced
    THEN [requested |-> FALSE, payload |-> old, outcome |-> "path"]
    ELSE CASE resp = "200" ->
                [requested |-> TRUE, payload |-> fresh, outcome |-> "path"]
           [] resp = "403" ->
                [requested |-> TRUE, payload |-> 0 - fresh,
                 outcome |-> "HTTPStatusError403"]
           [] resp = "500" ->
                [requested |-> TRUE, payload |-> 0 - fresh,
                 outcome |-> "HTTPStatusError"]
           [] resp = "ConnectError" ->
                [requested |-> TRUE, payload |-> old,
                 outcome |-> "ConnectError"]
           [] resp = "ReadError" ->
                [requested |-> TRUE,
                 payload |-> IF IsCsv(s) THEN 0 - fresh ELSE old,
                 outcome |-> "ReadError"]

Download(s, forced, old, resp, fresh) ==
    IF RawExists(old) /\ ~forced
    THEN [requested |-> FALSE, payload |-> old, outcome |-> "path"]
    ELSE CASE resp = "200" ->
                [requested |-> TRUE, payload |-> fresh, outcome |-> "path"]
           [] resp = "403" ->
                [requested |-> TRUE, payload |-> old,
                 outcome |-> "HTTPStatusError403"]
           [] resp = "500" ->
                [requested |-> TRUE, payload |-> old,
                 outcome |-> "HTTPStatusError"]
           [] resp = "ConnectError" ->
                [requested |-> TRUE, payload |-> old,
                 outcome |-> "ConnectError"]
           [] resp = "ReadError" ->
                [requested |-> TRUE,
                 payload |-> IF IsCsv(s) THEN 0 - fresh ELSE old,
                 outcome |-> "ReadError"]

\* ingest(), the body of either for loop: the path is appended, an
\* HTTPStatusError with status 403 is swallowed, anything else propagates.
\* Mutant of IngestCatch: the except clause re-raises a 403 as well.
IngestCatchReraising403(outcome) ==
    CASE outcome = "path" -> "append"
      [] OTHER            -> "raise"

\* Mutant of IngestCatch: the except clause swallows every HTTPStatusError.
IngestCatchSwallowingAll(outcome) ==
    CASE outcome = "path"               -> "append"
      [] outcome = "HTTPStatusError403" -> "skip"
      [] outcome = "HTTPStatusError"    -> "skip"
      [] OTHER                          -> "raise"

\* the loop body appending the path of a source it skipped on a 403
IngestCatchAppending403(outcome) ==
    CASE outcome = "path"               -> "append"
      [] outcome = "HTTPStatusError403" -> "append"
      [] OTHER                          -> "raise"

IngestCatch(outcome) ==
    CASE outcome = "path"               -> "append"
      [] outcome = "HTTPStatusError403" -> "skip"
      [] OTHER                          -> "raise"

(***************************************************************************)
(* build.py and validate.py: the exit status of the two entry points.      *)
(***************************************************************************)
\* Mutant of BuildExitStatus: the sys.exit(1) is lost.
BuildExitStatusIgnoringFailures(failures) == IF failures < 0 THEN 1 ELSE 0

\* build.main(): sys.exit(1) when failures > 0, else falls off the end.
BuildExitStatus(failures) == IF failures > 0 THEN 1 ELSE 0

\* validate.main(): sys.exit(1 if failures > 0 else 0).
ValidateExitStatus(failures) == IF failures > 0 THEN 1 ELSE 0

\* Mutant of NextStage: main() calls validate() right after ingest().
NextStageSkippingTransform(stage) ==
    CASE stage = "ingest"    -> "validate"
      [] stage = "transform" -> "validate"
      [] stage = "validate"  -> "done"

\* build.main(): the stage that follows each stage.
NextStage(stage) ==
    CASE stage = "ingest"    -> "transform"
      [] stage = "transform" -> "validate"
      [] stage = "validate"  -> "done"

NoStatus == 0 - 1

ZeroCounters == [passed |-> 0, failed |-> 0, warnings |-> 0]

\* validate() without its first three assignments: the module's counters
\* are left as the previous call left them
KeepCounters(c) == c

\* validate(): `passed = 0; failed = 0; warnings = 0` on the globals
ResetCounters(c) == ZeroCounters

(***************************************************************************)
(* State.                                                                  *)
(***************************************************************************)
VARIABLES
    raw,        \* data/raw: source -> payload
    dbs,        \* database files: path -> table -> table record
    agg,        \* data/aggregated: snapshot name -> file record
    pc,         \* "idle", "ingest", "transform", "validate", "done"
    entry,      \* entry point of the current process
    run,        \* processes started so far
    force,      \* "--force" in sys.argv
    idx,        \* position of ingest() in Catalog
    paths,      \* ingest()'s list of paths
    got,        \* source -> response received in this process ("none")
    startRaw,   \* data/raw as it was when this process started
    stages,     \* the stage calls and returns of this process, in order
    err,        \* exception that ended the process ("none")
    exit,       \* exit status of the process (NoStatus while it runs)
    trun,       \* transform() calls so far
    tdb,        \* database file of the latest transform() call
    tlog,       \* the latest transform() call: data/raw and data/aggregated
                \* as it found them, the tables after loading, the
                \* snapshots it left, whether it raised
    counters,   \* validate.py's passed / failed / warnings globals
    fam,        \* section the latest validate() reached (0: none yet)
    returned,   \* value validate() returned (NoStatus: none)
    lastV,      \* latest validate() call: the directory it read, the value it
                \* returned, the files removed by hand just before it
    prevV,      \* the validate() call before that
    defects,    \* snapshot files overwritten by hand so far
    faults,     \* failing HTTP exchanges so far
    removals,   \* files removed by hand so far
    history,    \* the processes started so far: entry point, --force, and
                \* whether its ingest() call returned
    rows        \* one raw file record by record, the table loaded from it
                \* and the snapshots aggregated from the table

vars ==
    << raw, dbs, agg, pc, entry, run, force, idx, paths, got, startRaw,
       stages, err, exit, trun, tdb, tlog, counters, fam, returned, lastV, prevV,
       faults, removals, defects, history, rows >>

pipelineVars ==
    << raw, dbs, agg, pc, entry, run, force, idx, paths, got, startRaw,
       stages, err, exit, trun, tdb, tlog, counters, fam, returned, lastV, prevV,
       faults, removals, defects, history >>

diskVars == << raw, dbs, agg >>
ingestVars == << idx, paths, got >>
validateVars == << counters, fam, returned, lastV, prevV >>
transformVars == << trun, tdb, tlog >>

NoValidation ==
    [dir |-> [a \in AggNames |-> NoFile], ret |-> NoStatus]

\* No raw file is being followed record by record.
NoRows ==
    [src |-> "none", raw |-> << >>, loaded |-> "no", table |-> << >>,
     out |-> << >>, hand |-> {}]

Idle == pc \in {"idle", "done"}

\* A fresh checkout: no raw files, no database file, no snapshots.
InitProcess ==
    /\ pc = "idle"
    /\ entry = "none"
    /\ run = 0
    /\ force = FALSE
    /\ idx = 0
    /\ paths = << >>
    /\ got = [s \in Sources |-> "none"]
    /\ stages = << >>
    /\ err = "none"
    /\ exit = NoStatus
    /\ trun = 0
    /\ tdb = DB_PATH
    /\ tlog = [raw |-> [s \in Sources |-> 0],
               before |-> [a \in AggNames |-> NoFile],
               tables |-> [t \in Tables |-> NoTable],
               after |-> [a \in AggNames |-> NoFile],
               raised |-> FALSE]
    /\ counters = ZeroCounters
    /\ fam = 0
    /\ returned = NoStatus
    /\ lastV = NoValidation
    /\ prevV = NoValidation
    /\ defects = 0
    /\ faults = 0
    /\ removals = 0
    /\ history = << >>

Init ==
    /\ raw = [s \in Sources |-> 0]
    /\ dbs = [d \in DbPaths |-> [t \in Tables |-> NoTable]]
    /\ agg = [a \in AggNames |-> NoFile]
    /\ startRaw = raw
    /\ InitProcess
    /\ rows = NoRows

(***************************************************************************)
(* python -m pipeline.build [--force]                                      *)
(***************************************************************************)
\* A new interpreter: the modules are imported (validate.py's counters are
\* module globals initialised to 0) and main() is entered.
StartProcess(e, stage, f) ==
    /\ Idle
    /\ history' = Append(history,
                       [entry |-> e, force |-> f, ingested |-> FALSE])
    /\ force' = f
    /\ run < MaxRuns
    /\ run' = run + 1
    /\ entry' = e
    /\ pc' = stage
    /\ stages' = << stage >>
    /\ err' = "none"
    /\ exit' = NoStatus
    /\ counters' = ZeroCounters
    /\ fam' = 0
    /\ returned' = NoStatus
    /\ startRaw' = raw
    /\ got' = [s \in Sources |-> "none"]
    /\ paths' = << >>

\* build.main() up to the call of ingest(force=force), and ingest() up to
\* its first loop.
BuildMain(f) ==
    /\ StartProcess("build", "ingest", f)
    /\ idx' = 1
    /\ UNCHANGED << rows, diskVars, transformVars, lastV, prevV, faults,
                    removals, defects >>

\* One iteration of ingest()'s loops: the download of Catalog[idx] and the
\* try/except around it.
IngestStep(resp) ==
    /\ pc = "ingest"
    /\ idx <= Len(Catalog)
    /\ LET s == Catalog[idx]
           d == Download(s, force, raw[s], resp, run)
           h == IngestCatch(d.outcome)
       IN  /\ d.requested \/ resp = "200"
           /\ (d.requested /\ resp # "200") => faults < MaxFaults
           /\ faults' = IF d.requested /\ resp # "200"
                        THEN faults + 1 ELSE faults
           /\ raw' = [raw EXCEPT ![s] = d.payload]
           /\ got' = IF d.requested THEN [got EXCEPT ![s] = resp] ELSE got
           /\ paths' = IF h = "append" THEN Append(paths, s) ELSE paths
           /\ IF h = "raise"
              THEN /\ pc' = "done"
                   /\ err' = d.outcome
                   /\ exit' = 1
                   /\ idx' = idx
              ELSE /\ pc' = pc
                   /\ err' = err
                   /\ exit' = exit
                   /\ idx' = idx + 1
    /\ UNCHANGED << rows, dbs, agg, entry, run, force, startRaw, stages,
                    transformVars, validateVars, removals, defects,
                    history >>

\* ingest() returns its list; build.main() prints it and moves on.
IngestReturn ==
    /\ pc = "ingest"
    /\ idx > Len(Catalog)
    /\ pc' = NextStage("ingest")
    /\ stages' = stages \o << "ingest.ret", NextStage("ingest") >>
    /\ history' = [history EXCEPT ![Len(history)].ingested = TRUE]
    /\ UNCHANGED << rows, diskVars, entry, run, force, ingestVars, startRaw, err,
                    exit, transformVars, validateVars, faults, removals,
                    defects >>

\* transform(db_path=db) as one step: connect, the ten loaders, the
\* thirteen aggregations.  tlog keeps what the call saw and left.
DoTransform(db) ==
    LET n      == trun + 1
        tables == LoadAll(dbs[db], raw, n)
        out    == BuildAggregations(1, agg, tables, n)
    IN  /\ trun' = n
        /\ tdb' = db
        /\ dbs' = [dbs EXCEPT ![db] = tables]
        /\ agg' = out.dir
        /\ tlog' = [raw |-> raw, before |-> agg, tables |-> tables,
                    after |-> out.dir, raised |-> out.raised]
        /\ IF out.raised
           THEN /\ pc' = "done"
                /\ err' = "CatalogException"
                /\ exit' = 1
                /\ stages' = stages
           ELSE /\ err' = err
                /\ IF entry = "build"
                   THEN /\ pc' = NextStage("transform")
                        /\ exit' = exit
                        /\ stages' = stages \o << "transform.ret",
                                                NextStage("transform") >>
                   ELSE /\ pc' = "done"
                        /\ exit' = 0
                        /\ stages' = Append(stages, "transform.ret")

\* build.main(): transform()
BuildTransform ==
    /\ pc = "transform"
    /\ entry = "build"
    /\ DoTransform(DB_PATH)
    /\ UNCHANGED << rows, raw, entry, run, force, ingestVars, startRaw,
                    validateVars, faults, removals, defects, history >>

\* transform(db_path=db) called on its own (python -m pipeline.transform
\* for DB_PATH).
TransformMain(db) ==
    /\ StartProcess("transform", "transform", FALSE)
    /\ tdb' = db
    /\ UNCHANGED << rows, diskVars, idx, trun, tlog, lastV, prevV, faults,
                    removals, defects >>

TransformOnly ==
    /\ pc = "transform"
    /\ entry = "transform"
    /\ DoTransform(tdb)
    /\ UNCHANGED << rows, raw, entry, run, force, ingestVars, startRaw,
                    validateVars, faults, removals, defects, history >>

(***************************************************************************)
(* validate()                                                              *)
(***************************************************************************)
\* validate() as one step: the counters are reset, the ten sections run
\* in order, then the summary and `return failed`; the caller turns the
\* count into the exit status.  An exception out of a query ends the
\* process with a traceback instead.  fam is the section reached.
Validate ==
    /\ pc = "validate"
    /\ LET r == RunValidate(1, agg, ResetCounters(counters))
       IN  /\ counters' = r.c
           /\ fam' = r.at
           /\ prevV' = lastV
           /\ IF r.raised
              THEN /\ pc' = "done"
                   /\ err' = "BinderException"
                   /\ exit' = 1
                   /\ returned' = returned
                   /\ stages' = stages
                   /\ lastV' = [dir |-> agg, ret |-> NoStatus]
              ELSE /\ pc' = NextStage("validate")
                   /\ err' = err
                   /\ exit' = CASE entry = "build" ->
                                       BuildExitStatus(r.c.failed)
                                [] entry = "validate" ->
                                       ValidateExitStatus(r.c.failed)
                                [] entry = "session" -> exit
                   /\ returned' = r.c.failed
                   /\ stages' = Append(stages, "validate.ret")
                   /\ lastV' = [dir |-> agg, ret |-> r.c.failed]
    /\ UNCHANGED << rows, diskVars, entry, run, force, ingestVars, startRaw,
                    transformVars, faults, removals, defects, history >>

\* python -m pipeline.validate
ValidateMain ==
    /\ StartProcess("validate", "validate", FALSE)
    /\ UNCHANGED << rows, diskVars, idx, transformVars, lastV, prevV,
                    faults, removals, defects >>

\* A Python process that imports pipeline.validate and calls validate().
SessionStart ==
    /\ StartProcess("session", "validate", FALSE)
    /\ UNCHANGED << rows, diskVars, idx, transformVars, lastV, prevV,
                    faults, removals, defects >>

\* The same process calls validate() once more: the module's globals are
\* as the previous call left them.
SessionCallAgain ==
    /\ entry = "session"
    /\ pc = "done"
    /\ err = "none"
    /\ run < MaxRuns
    /\ run' = run + 1
    /\ pc' = "validate"
    /\ stages' = Append(stages, "validate")
    /\ fam' = 0
    /\ returned' = NoStatus
    /\ UNCHANGED << rows, diskVars, entry, force, ingestVars, startRaw, err,
                    exit, transformVars, counters, lastV, prevV, faults,
                    removals, defects, history >>

(***************************************************************************)
(* An operator's `rm` between two processes.                               *)
(***************************************************************************)
RemoveRaw(s) ==
    /\ Idle
    /\ removals < MaxRemovals
    /\ RawExists(raw[s])
    /\ raw' = [raw EXCEPT ![s] = 0]
    /\ removals' = removals + 1
    /\ UNCHANGED << rows, dbs, agg, pc, entry, run, force, ingestVars, startRaw,
                    stages, err, exit, transformVars, validateVars, faults,
                    defects, history >>

RemoveSnapshot(a) ==
    /\ Idle
    /\ removals < MaxRemovals
    /\ agg[a].exists
    /\ agg' = [agg EXCEPT ![a] = NoFile]
    /\ removals' = removals + 1
    /\ UNCHANGED << rows, raw, dbs, pc, entry, run, force, ingestVars, startRaw,
                    stages, err, exit, transformVars, validateVars, faults,
                    defects, history >>

\* The columns validate() names for snapshot a, in a query or in its
\* column list.
NamedColumns(a) ==
    UNION { Range(col_checks[i].cols) :
                i \in { j \in 1..Len(col_checks) : col_checks[j].name = a } }
    \cup { "year" : i \in { j \in 1..Len(year_checks) :
                                year_checks[j].name = a } }
    \cup (IF a = "collision_by_type"
          THEN {"collision_severity", "type_of_collision", "weather",
                "lighting"}
          ELSE {})

\* queries.py: the columns each query function names in its SELECT list,
\* WHERE clause and ORDER BY, per snapshot it reads.
serving_cols ==
    << [name |-> "ridership_trends",
        cols |-> {"year", "total_weekday_boardings", "num_routes"}],
       [name |-> "ridership_by_route",
        cols |-> {"year", "route", "avg_weekday_boardings"}],
       [name |-> "vmt_trends", cols |-> {"year", "peak", "freeway", "vmt"}],
       [name |-> "travel_time_trends",
        cols |-> {"year", "route", "peak", "mean_minutes"}],
       [name |-> "collision_severity",
        cols |-> {"year", "collision_severity", "num_collisions"}],
       [name |-> "collision_by_type",
        cols |-> {"year", "collision_severity", "type_of_collision",
                  "is_bicycle", "is_pedestrian", "is_motorcycle", "weather",
                  "lighting", "num_collisions", "total_killed",
                  "total_injured"}],
       [name |-> "city_collision_trends",
        cols |-> {"year", "num_collisions", "total_injured", "total_killed"}],
       [name |-> "youth_pass_trends",
        cols |-> {"month", "total_rides", "num_routes", "num_communities"}],
       [name |-> "youth_pass_communities",
        cols |-> {"community", "total_rides"}],
       [name |-> "flex_fleet_trends",
        cols |-> {"month", "location_name", "category", "total_value"}],
       [name |-> "traffic_volume_streets",
        cols |-> {"street_name", "limits", "year", "total_count"}] >>

ServingColumns(a) ==
    UNION { serving_cols[i].cols :
                i \in { j \in 1..Len(serving_cols) : serving_cols[j].name = a } }

\* Files somebody other than transform() may leave under the name of
\* snapshot a: the healthy content with one thing wrong.
ForeignFiles(a) ==
    LET h == Snapshot(a, 0, 0)
    IN  { [h EXCEPT !.rows = 0, !.ymin = 1, !.ymax = 0] }
        \cup { [h EXCEPT !.cols = @ \ {c}] :
                   c \in NamedColumns(a) \cup ServingColumns(a) }
        \cup (IF h.ymin <= h.ymax THEN { [h EXCEPT !.ymin = h.ymax] } ELSE {})
        \cup (IF \E i \in 1..Len(year_checks) : year_checks[i].name = a
              THEN { [h EXCEPT !.ymin = @ - (YearSlack + 1)],
                     [h EXCEPT !.ymax = @ + (YearSlack + 1)] }
              ELSE {})
        \cup (IF a \in {"ridership_trends", "vmt_trends",
                        "city_collision_trends"}
              THEN { [h EXCEPT !.neg = 1] } ELSE {})
        \cup (IF a = "collision_map_points"
              THEN { [h EXCEPT !.oob = 1] } ELSE {})
        \cup (IF a = "collision_by_type"
              THEN { [h EXCEPT !.nulls = 1] } ELSE {})
        \cup (IF a = "youth_pass_trends"
              THEN { [h EXCEPT !.rows = YouthMaxRows] } ELSE {})
        \cup (IF a = "flex_fleet_trends"
              THEN { [h EXCEPT !.rows = FlexMaxRows] } ELSE {})
        \cup { [h EXCEPT !.mb = IF a = "collision_map_points"
                                THEN MapPointsLimitMB ELSE FileLimitMB],
               [h EXCEPT !.mb = TotalLimitMB] }

\* A file is put under a snapshot's name by hand between two processes.
OverwriteSnapshot(a, f) ==
    /\ Idle
    /\ defects < MaxDefects
    /\ agg' = [agg EXCEPT ![a] = f]
    /\ defects' = defects + 1
    /\ UNCHANGED << rows, raw, dbs, pc, entry, run, force, ingestVars, startRaw,
                    stages, err, exit, transformVars, validateVars, faults,
                    removals, history >>

(***************************************************************************)
(* The pipeline from a fresh checkout: processes of the two entry points,  *)
(* one at a time, against an upstream that answers each request with any   *)
(* of Responses.                                                           *)
(***************************************************************************)
Next ==
    \/ \E f \in BOOLEAN : BuildMain(f)
    \/ \E resp \in Responses : IngestStep(resp)
    \/ IngestReturn
    \/ BuildTransform
    \/ ValidateMain
    \/ Validate

Spec == Init /\ [][Next]_vars

(***************************************************************************)
(* The stores over several runs: build processes against an upstream that  *)
(* answers every request with 200, transform() calls on either database    *)
(* file, and raw files removed by hand in between.                         *)
(***************************************************************************)
NextStore ==
    \/ \E f \in BOOLEAN : BuildMain(f)
    \/ IngestStep("200")
    \/ IngestReturn
    \/ BuildTransform
    \/ Validate
    \/ \E db \in DbPaths : TransformMain(db)
    \/ TransformOnly
    \/ \E s \in Sources : RemoveRaw(s)

SpecStore == Init /\ [][NextStore]_vars

(***************************************************************************)
(* The gate on its own: python -m pipeline.validate against a directory    *)
(* that holds the thirteen snapshots of a complete dataset, in which files *)
(* are overwritten or removed by hand between runs.                        *)
(***************************************************************************)
InitGate ==
    /\ raw = [s \in Sources |-> 0]
    /\ dbs = [d \in DbPaths |-> [t \in Tables |-> NoTable]]
    /\ agg = [a \in AggNames |-> Snapshot(a, 0, 0)]
    /\ startRaw = raw
    /\ InitProcess
    /\ rows = NoRows

NextGate ==
    \/ ValidateMain
    \/ Validate
    \/ \E a \in AggNames : RemoveSnapshot(a)
    \/ \E a \in AggNames : \E f \in ForeignFiles(a) : OverwriteSnapshot(a, f)

SpecGate == InitGate /\ [][NextGate]_vars

(***************************************************************************)
(* The gate on a directory where any of the three headline snapshots may   *)
(* never have been written (_try_agg skips a spec whose table is missing), *)
(* and where one of them may be replaced by hand.                          *)
(***************************************************************************)
InitOverlap ==
    /\ raw = [s \in Sources |-> 0]
    /\ dbs = [d \in DbPaths |-> [t \in Tables |-> NoTable]]
    /\ \E S \in SUBSET Range(overlap_names) :
           agg = [a \in AggNames |->
                     IF a \in S THEN NoFile ELSE Snapshot(a, 0, 0)]
    /\ startRaw = raw
    /\ InitProcess
    /\ rows = NoRows

NextOverlap ==
    \/ ValidateMain
    \/ Validate
    \/ \E a \in Range(overlap_names) :
           \E f \in ForeignFiles(a) : OverwriteSnapshot(a, f)

SpecOverlap == InitOverlap /\ [][NextOverlap]_vars

(***************************************************************************)
(* validate() called repeatedly by one process on a snapshot directory     *)
(* that other programs may change between the calls.                       *)
(***************************************************************************)
NextSession ==
    \/ SessionStart
    \/ SessionCallAgain
    \/ Validate
    \/ \E a \in AggNames : RemoveSnapshot(a)
    \/ \E a \in AggNames : \E f \in ForeignFiles(a) : OverwriteSnapshot(a, f)

SpecSession == InitGate /\ [][NextSession]_vars

(***************************************************************************)
(* transform.py record by record.  A SQL value is << >> (NULL) or << v >>. *)
(* A raw record maps the raw column names to such values, the value being  *)
(* the text found in the file.  The texts a cast understands are listed:   *)
(* any other text does not parse.  DOUBLEs are kept in tenths, DATEs as    *)
(* yyyymmdd and TIMESTAMPs as yyyymmddhh.                                  *)
(***************************************************************************)
Null == << >>

IntegerLiterals ==
    [t \in {"0", "1", "2", "3", "2019", "2020", "2021"} |->
        CASE t = "0" -> 0 [] t = "1" -> 1 [] t = "2" -> 2 [] t = "3" -> 3
          [] t = "2019" -> 2019 [] t = "2020" -> 2020 [] t = "2021" -> 2021]

DoubleLiterals ==
    [t \in {"1.5", "2.0", "32.4", "32.5", "33.0", "33.3", "33.4", "40.0",
            "-117.8", "-117.7", "-117.0", "-116.8", "-116.7"} |->
        CASE t = "1.5" -> 15 [] t = "2.0" -> 20
          [] t = "32.4" -> 324 [] t = "32.5" -> 325 [] t = "33.0" -> 330
          [] t = "33.3" -> 333 [] t = "33.4" -> 334 [] t = "40.0" -> 400
          [] t = "-117.8" -> 0 - 1178 [] t = "-117.7" -> 0 - 1177
          [] t = "-117.0" -> 0 - 1170 [] t = "-116.8" -> 0 - 1168
          [] t = "-116.7" -> 0 - 1167]

DateLiterals ==
    [t \in {"2019-05-01", "2020-06-01", "2020-07-01"} |->
        CASE t = "2019-05-01" -> 20190501 [] t = "2020-06-01" -> 20200601
          [] t = "2020-07-01" -> 20200701]

TimestampLiterals ==
    [t \in {"2019-05-01 08:00:00", "2020-06-01 17:00:00"} |->
        CASE t = "2019-05-01 08:00:00" -> 2019050108
          [] t = "2020-06-01 17:00:00" -> 2020060117]

BooleanLiterals ==
    [t \in {"true", "false", "Y", "N"} |-> t \in {"true", "Y"}]

\* TRY_CAST(v AS <type>): NULL when the text does not parse
TryCast(literals, v) ==
    IF v # Null /\ v[1] \in DOMAIN literals THEN << literals[v[1]] >> ELSE Null

\* the expression without NULLIF: the text is kept as it is
NullIfKeeping(v) == v

\* NULLIF(v, 'NULL')
NullIf(v) == IF v = << "NULL" >> THEN Null ELSE v

\* YEAR(d) of a DATE / of a TIMESTAMP
YearOfDate(d) == IF d = Null THEN Null ELSE << d[1] \div 10000 >>

YearOfTimestamp(ts) == IF ts = Null THEN Null ELSE << ts[1] \div 1000000 >>

\* One expression of a loader's SELECT list or WHERE clause applied to raw
\* value v: the SQL value, or raised when a cast that is not a TRY_CAST
\* meets a text it does not understand (duckdb.ConversionException).
Convert(conv, v) ==
    CASE conv = "copy" -> [v |-> v, raised |-> FALSE]
      [] conv = "try_integer" ->
            [v |-> TryCast(IntegerLiterals, v), raised |-> FALSE]
      [] conv = "try_double" ->
            [v |-> TryCast(DoubleLiterals, v), raised |-> FALSE]
      [] conv = "try_date" ->
            [v |-> TryCast(DateLiterals, v), raised |-> FALSE]
      [] conv = "try_timestamp" ->
            [v |-> TryCast(TimestampLiterals, v), raised |-> FALSE]
      [] conv = "year_try_date" ->
            [v |-> YearOfDate(TryCast(DateLiterals, v)), raised |-> FALSE]
      [] conv = "year_try_timestamp" ->
            [v |-> YearOfTimestamp(TryCast(TimestampLiterals, v)),
             raised |-> FALSE]
      [] conv = "nullif" -> [v |-> NullIf(v), raised |-> FALSE]
      [] conv = "try_integer_nullif" ->
            [v |-> TryCast(IntegerLiterals, NullIf(v)), raised |-> FALSE]
      [] conv = "try_double_nullif" ->
            [v |-> TryCast(DoubleLiterals, NullIf(v)), raised |-> FALSE]
      [] conv = "boolean_or_false" ->
            \* COALESCE(v::BOOLEAN, FALSE)
            IF v = Null
            THEN [v |-> << FALSE >>, raised |-> FALSE]
            ELSE IF v[1] \in DOMAIN BooleanLiterals
                 THEN [v |-> << BooleanLiterals[v[1]] >>, raised |-> FALSE]
                 ELSE [v |-> Null, raised |-> TRUE]

Col(as, col, conv) == [as |-> as, col |-> col, conv |-> conv]

\* The CREATE TABLE ... AS SELECT of each loader: the raw file, the SELECT
\* list, and the expression the WHERE clause requires to be NOT NULL
\* (none for a loader without WHERE clause).
LoaderSql(t) ==
    CASE t = "transit_ridership" ->
            [src |-> "transit_ridership",
             select |-> << Col("year", "calenadr_year", "try_integer"),
                           Col("route", "route", "copy"),
                           Col("avg_weekday_boardings",
                               "average_weekday_boardings", "try_double") >>,
             where |-> << Col("", "calenadr_year", "try_integer") >>]
      [] t = "vmt" ->
            [src |-> "vmt_pems",
             select |-> << Col("year", "year", "try_integer"),
                           Col("peak", "peak", "copy"),
                           Col("freeway", "freeway", "copy"),
                           Col("vmt", "vmt", "try_double") >>,
             where |-> << Col("", "year", "try_integer") >>]
      [] t = "travel_times" ->
            [src |-> "highway_travel_times",
             select |-> << Col("year", "year", "try_integer"),
                           Col("route", "route", "copy"),
                           Col("peak", "peak", "copy"),
                           Col("mean_minutes", "mean", "try_double") >>,
             where |-> << Col("", "year", "try_integer") >>]
      [] t = "switrs_summary" ->
            [src |-> "switrs_summary",
             select |-> << Col("year", "accident_year", "try_integer"),
                           Col("collision_severity", "collision_severity",
                               "copy"),
                           Col("num_collisions", "number_of_collisions",
                               "try_integer") >>,
             where |-> << Col("", "accident_year", "try_integer") >>]
      [] t = "switrs_detailed" ->
            [src |-> "switrs_detailed",
             select |-> << Col("year", "accident_year", "try_integer"),
                           Col("collision_severity", "collision_severity",
                               "nullif"),
                           Col("type_of_collision", "type_of_collision",
                               "nullif"),
                           Col("pcf_violation_category", "pcf_viol_category",
                               "nullif"),
                           Col("is_bicycle", "bicycle_accident",
                               "boolean_or_false"),
                           Col("is_pedestrian", "pedestrian_accident",
                               "boolean_or_false"),
                           Col("is_motorcycle", "motorcycle_accident",
                               "boolean_or_false"),
                           Col("weather", "weather_1", "nullif"),
                           Col("lighting", "lighting", "nullif"),
                           Col("latitude", "latitude_sandag",
                               "try_double_nullif"),
                           Col("longitude", "longitude_sandag",
                               "try_double_nullif"),
                           Col("killed_victims", "number_killed",
                               "try_integer_nullif"),
                           Col("injured_victims", "number_injured",
                               "try_integer_nullif") >>,
             where |-> << Col("", "accident_year", "try_integer") >>]
      [] t = "youth_opp_pass" ->
            [src |-> "youth_opp_pass",
             select |-> << Col("route", "route", "copy"),
                           Col("service", "service", "copy"),
                           Col("month", "month", "try_date"),
                           Col("category", "category", "copy"),
                           Col("rides", "rides", "try_double"),
                           Col("community", "community", "copy"),
                           Col("vehicle", "vehicle", "copy") >>,
             where |-> << >>]
      [] t = "flexible_fleet" ->
            [src |-> "flexible_fleet",
             select |-> << Col("month", "month", "copy"),
                           Col("location_name", "location_name", "copy"),
                           Col("am_pm", "am_pm", "copy"),
                           Col("weekday_weekend", "weekday_weekend", "copy"),
                           Col("value", "value", "try_double"),
                           Col("category", "category", "copy") >>,
             where |-> << >>]
      [] t = "traffic_volumes" ->
            [src |-> "traffic_volumes",
             select |-> << Col("street_name", "street_name", "copy"),
                           Col("limits", "limits", "copy"),
                           Col("total_count", "total_count", "try_integer"),
                           Col("date_count", "date_count", "try_date"),
                           Col("year", "date_count", "year_try_date") >>,
             where |-> << Col("", "total_count", "try_integer") >>]
      [] t = "city_collisions" ->
            [src |-> "traffic_collisions",
             select |-> << Col("report_id", "report_id", "copy"),
                           Col("date_time", "date_time", "try_timestamp"),
                           Col("year", "date_time", "year_try_timestamp"),
                           Col("police_beat", "police_beat", "copy"),
                           Col("address_road_primary",
                               "address_road_primary", "copy"),
                           Col("charge_desc", "charge_desc", "copy"),
                           Col("injured", "injured", "try_integer"),
                           Col("killed", "killed", "try_integer") >>,
             where |-> << Col("", "date_time", "try_timestamp") >>]

\* The tables followed record by record (transit_routes is SELECT *).
RowTables == Tables \ {"transit_routes"}

\* WHERE <expr> IS NOT NULL
Retained(sql, rec) ==
    \A i \in 1..Len(sql.where) :
        Convert(sql.where[i].conv, rec[sql.where[i].col]).v # Null

\* The SELECT list applied to one raw record.
Project(sql, rec) ==
    [c \in { sql.select[i].as : i \in 1..Len(sql.select) } |->
        LET e == sql.select[CHOOSE i \in 1..Len(sql.select) :
                                sql.select[i].as = c]
        IN  Convert(e.conv, rec[e.col]).v]

ProjectRaises(sql, rec) ==
    \E i \in 1..Len(sql.select) :
        Convert(sql.select[i].conv, rec[sql.select[i].col]).raised

\* _load_<x>(con) on the records of its raw file: the rows of the table,
\* in file order, or raised when a retained record makes a cast fail.
LoadRows(t, recs) ==
    LET sql  == LoaderSql(t)
        kept == SelectSeq(recs, LAMBDA r : Retained(sql, r))
    IN  IF \E i \in 1..Len(kept) : ProjectRaises(sql, kept[i])
        THEN [table |-> << >>, raised |-> TRUE]
        ELSE [table |-> [i \in 1..Len(kept) |-> Project(sql, kept[i])],
              raised |-> FALSE]

(***************************************************************************)
(* _build_aggregations record by record.  Each spec is its FROM table, the *)
(* conditions of its WHERE clause, its GROUP BY columns with the measures  *)
(* computed per group, or (without GROUP BY) its SELECT list, and the keys *)
(* of its ORDER BY clause.                                                 *)
(***************************************************************************)
Cond(col, op, arg) == [col |-> col, op |-> op, arg |-> arg]

Measure(as, fn, col) == [as |-> as, fn |-> fn, col |-> col]

\* One key of an ORDER BY clause: the column, "asc" or "desc", and whether
\* the column holds text or numbers (dates included).
Key(col, dir, kind) == [col |-> col, dir |-> dir, kind |-> kind]

\* DOUBLE literals of the map-points WHERE clause, in tenths
LatMin == 325
LatMax == 333
LonMin == 0 - 1177
LonMax == 0 - 1168

AggSql(a) ==
    CASE a = "ridership_trends" ->
            [order |-> << Key("year", "asc", "number") >>,
             where |-> << >>, group |-> << "year" >>, select |-> << >>,
             measures |-> << Measure("total_weekday_boardings", "sum",
                                     "avg_weekday_boardings"),
                             Measure("num_routes", "count_distinct",
                                     "route") >>]
      [] a = "ridership_by_route" ->
            [order |-> << Key("year", "asc", "number"),
                         Key("route", "asc", "text") >>,
             where |-> << >>, group |-> << >>, measures |-> << >>,
             select |-> << "year", "route", "avg_weekday_boardings" >>]
      [] a = "vmt_trends" ->
            [order |-> << Key("year", "asc", "number"),
                         Key("peak", "asc", "text"),
                         Key("freeway", "asc", "text") >>,
             where |-> << >>, group |-> << >>, measures |-> << >>,
             select |-> << "year", "peak", "freeway", "vmt" >>]
      [] a = "travel_time_trends" ->
            [order |-> << Key("year", "asc", "number"),
                         Key("route", "asc", "text"),
                         Key("peak", "asc", "text") >>,
             where |-> << >>, group |-> << >>, measures |-> << >>,
             select |-> << "year", "route", "peak", "mean_minutes" >>]
      [] a = "collision_severity" ->
            [order |-> << Key("year", "asc", "number"),
                         Key("collision_severity", "asc", "text") >>,
             where |-> << >>, group |-> << >>, measures |-> << >>,
             select |-> << "year", "collision_severity", "num_collisions" >>]
      [] a = "collision_by_type" ->
            [order |-> << Key("year", "asc", "number"),
                         Key("num_collisions", "desc", "number") >>,
             where |-> << >>,
             group |-> << "year", "collision_severity", "type_of_collision",
                          "is_bicycle", "is_pedestrian", "is_motorcycle",
                          "weather", "lighting" >>,
             select |-> << >>,
             measures |-> << Measure("num_collisions", "count", ""),
                             Measure("total_killed", "sum", "killed_victims"),
                             Measure("total_injured", "sum",
                                     "injured_victims") >>]
      [] a = "collision_map_points" ->
            [order |-> << >>,
             where |-> << Cond("latitude", "not_null", << >>),
                          Cond("longitude", "not_null", << >>),
                          Cond("latitude", "between", << LatMin, LatMax >>),
                          Cond("longitude", "between", << LonMin, LonMax >>) >>,
             group |-> << >>, measures |-> << >>,
             select |-> << "year", "collision_severity", "type_of_collision",
                           "is_bicycle", "is_pedestrian", "is_motorcycle",
                           "latitude", "longitude", "killed_victims",
                           "injured_victims" >>]
      [] a = "city_collision_trends" ->
            [order |-> << Key("year", "asc", "number") >>,
             where |-> << Cond("year", "not_null", << >>) >>,
             group |-> << "year" >>, select |-> << >>,
             measures |-> << Measure("num_collisions", "count", ""),
                             Measure("total_injured", "sum", "injured"),
                             Measure("total_killed", "sum", "killed") >>]
      [] a = "traffic_volume_trends" ->
            [order |-> << Key("year", "asc", "number") >>,
             where |-> << Cond("year", "not_null", << >>) >>,
             group |-> << "year" >>, select |-> << >>,
             measures |-> << Measure("num_counts", "count", ""),
                             Measure("avg_daily_traffic", "avg", "total_count"),
                             Measure("total_volume", "sum", "total_count") >>]
      [] a = "traffic_volume_streets" ->
            [order |-> << Key("total_count", "desc", "number") >>,
             where |-> << Cond("year", "not_null", << >>) >>,
             group |-> << >>, measures |-> << >>,
             select |-> << "street_name", "limits", "year", "total_count",
                           "date_count" >>]
      [] a = "youth_pass_trends" ->
            [order |-> << Key("month", "asc", "number") >>,
             where |-> << Cond("category", "eq", << "Total Rides" >>) >>,
             group |-> << "month" >>, select |-> << >>,
             measures |-> << Measure("total_rides", "sum", "rides"),
                             Measure("num_routes", "count_distinct", "route"),
                             Measure("num_communities", "count_distinct",
                                     "community") >>]
      [] a = "youth_pass_communities" ->
            [order |-> << Key("total_rides", "desc", "number") >>,
             where |-> << Cond("category", "eq", << "Total Rides" >>),
                          Cond("community", "not_null", << >>) >>,
             group |-> << "community" >>, select |-> << >>,
             measures |-> << Measure("total_rides", "sum", "rides") >>]
      [] a = "flex_fleet_trends" ->
            [order |-> << Key("month", "asc", "text"),
                         Key("location_name", "asc", "text"),
                         Key("category", "asc", "text") >>,
             where |-> << Cond("am_pm", "eq", << "Total" >>),
                          Cond("weekday_weekend", "eq", << "Total" >>) >>,
             group |-> << "month", "location_name", "category" >>,
             select |-> << >>,
             measures |-> << Measure("total_value", "sum", "value") >>]

\* the conditions with IS NOT NULL accepting every row
HoldsNullable(c, row) ==
    CASE c.op = "not_null" -> TRUE
      [] c.op = "eq" -> row[c.col] = c.arg
      [] c.op = "between" ->
            /\ row[c.col] # Null
            /\ c.arg[1] <= row[c.col][1]
            /\ row[c.col][1] <= c.arg[2]

\* the conditions with BETWEEN accepting every value that is there
HoldsUnbounded(c, row) ==
    CASE c.op = "not_null" -> row[c.col] # Null
      [] c.op = "eq" -> row[c.col] = c.arg
      [] c.op = "between" -> row[c.col] # Null

\* the conditions with BETWEEN leaving out its two bounds
HoldsExclusive(c, row) ==
    CASE c.op = "not_null" -> row[c.col] # Null
      [] c.op = "eq" -> row[c.col] = c.arg
      [] c.op = "between" ->
            /\ row[c.col] # Null
            /\ row[c.col][1] > c.arg[1]
            /\ row[c.col][1] < c.arg[2]

\* One condition of a WHERE clause on a table row; a comparison with NULL
\* is not true.
Holds(c, row) ==
    CASE c.op = "not_null" -> row[c.col] # Null
      [] c.op = "eq" -> row[c.col] = c.arg
      [] c.op = "between" ->
            /\ row[c.col] # Null
            /\ row[c.col][1] >= c.arg[1]
            /\ row[c.col][1] <= c.arg[2]

\* a query without its WHERE clause
SelectedAll(sql, row) == TRUE

Selected(sql, row) == \A i \in 1..Len(sql.where) : Holds(sql.where[i], row)

RECURSIVE SumOver(_, _, _)
SumOver(table, col, I) ==
    IF I = {}
    THEN 0
    ELSE LET i == CHOOSE j \in I : TRUE
         IN  table[i][col][1] + SumOver(table, col, I \ {i})

\* One aggregate over the rows I of a group; SUM and AVG skip NULLs and are
\* NULL when nothing is left; AVG is kept as sum and count.
Aggregate(m, table, I) ==
    LET given == { i \in I : m.col # "" /\ table[i][m.col] # Null }
    IN  CASE m.fn = "count" -> << Cardinality(I) >>
          [] m.fn = "count_distinct" ->
                << Cardinality({ table[i][m.col] : i \in given }) >>
          [] m.fn = "sum" ->
                IF given = {} THEN Null
                ELSE << SumOver(table, m.col, given) >>
          [] m.fn = "avg" ->
                IF given = {} THEN Null
                ELSE << [sum |-> SumOver(table, m.col, given),
                         n |-> Cardinality(given)] >>

\* A query over the rows of its table.
QueryRows(sql, table) ==
    LET sel == SelectSeq(table, LAMBDA r : Selected(sql, r))
        key(r) == [c \in Range(sql.group) |-> r[c]]
    IN  IF sql.group = << >>
        THEN [i \in 1..Len(sel) |-> [c \in Range(sql.select) |-> sel[i][c]]]
        ELSE { [c \in Range(sql.group)
                      \cup { sql.measures[j].as : j \in 1..Len(sql.measures) }
                |-> IF c \in Range(sql.group)
                    THEN k[c]
                    ELSE Aggregate(
                             sql.measures[CHOOSE j \in 1..Len(sql.measures) :
                                              sql.measures[j].as = c],
                             sel,
                             { i \in 1..Len(sel) : key(sel[i]) = k })]
               : k \in { key(sel[i]) : i \in 1..Len(sel) } }

\* The texts of the columns named in ORDER BY clauses, in the order string
\* comparison gives them.
Collation ==
    << "2020-06", "2020-07", "7", "8", "AM", "Downtown", "Fatal", "I-5",
       "Oceanside", "Riders", "Trips" >>

Rank(k, v) ==
    IF k.kind = "text"
    THEN CHOOSE i \in 1..Len(Collation) : Collation[i] = v[1]
    ELSE v[1]

\* Comparison of two rows on one ORDER BY key: -1 when r1 sorts first, 1
\* when r2 does, 0 when the key does not tell them apart.  NULLs sort last.
Cmp(k, r1, r2) ==
    LET v1 == r1[k.col]
        v2 == r2[k.col]
    IN  IF v1 = Null /\ v2 = Null THEN 0
        ELSE IF v1 = Null THEN 1
        ELSE IF v2 = Null THEN 0 - 1
        ELSE IF Rank(k, v1) = Rank(k, v2) THEN 0
        ELSE IF (Rank(k, v1) < Rank(k, v2)) = (k.dir = "asc") THEN 0 - 1
        ELSE 1

\* r1 sorts strictly after r2 under the ORDER BY keys from the i-th on.
RECURSIVE After(_, _, _, _)
After(order, i, r1, r2) ==
    IF i > Len(order)
    THEN FALSE
    ELSE LET c == Cmp(order[i], r1, r2)
         IN  IF c = 0 THEN After(order, i + 1, r1, r2) ELSE c = 1

InOrder(order, w) ==
    \A i, j \in 1..Len(w) : i < j => ~After(order, 1, w[i], w[j])

RECURSIVE SetToSeq(_)
SetToSeq(S) ==
    IF S = {}
    THEN << >>
    ELSE LET x == CHOOSE y \in S : TRUE
         IN  << x >> \o SetToSeq(S \ {x})

\* The files a query can write: its rows in an order its ORDER BY clause
\* allows, rows the keys do not tell apart coming in any order.  A SELECT
\* without ORDER BY keeps the order of the table.
Results(sql, table) ==
    LET q == QueryRows(sql, table)
        b == IF sql.group = << >> THEN q ELSE SetToSeq(q)
        n == Len(b)
    IN  IF sql.order = << >>
        THEN { b }
        ELSE { w \in { [i \in 1..n |-> b[p[i]]] :
                          p \in { f \in [1..n -> 1..n] :
                                      \A i, j \in 1..n :
                                          f[i] = f[j] => i = j } } :
                   InOrder(sql.order, w) }

\* The files the query of spec a can write from the rows of its table.
AggRows(a, table) == Results(AggSql(a), table)

(***************************************************************************)
(* Raw files to load: per source one well-formed record and the records    *)
(* that differ from it in one field.                                       *)
(***************************************************************************)
BaseRecord(src) ==
    CASE src = "transit_ridership" ->
            [calenadr_year |-> << "2019" >>, route |-> << "7" >>,
             average_weekday_boardings |-> << "1.5" >>]
      [] src = "vmt_pems" ->
            [year |-> << "2019" >>, peak |-> << "AM" >>,
             freeway |-> << "I-5" >>, vmt |-> << "1.5" >>]
      [] src = "highway_travel_times" ->
            [year |-> << "2019" >>, route |-> << "I-5" >>,
             peak |-> << "AM" >>, mean |-> << "1.5" >>]
      [] src = "switrs_summary" ->
            [accident_year |-> << "2019" >>,
             collision_severity |-> << "Fatal" >>,
             number_of_collisions |-> << "3" >>]
      [] src = "switrs_detailed" ->
            [accident_year |-> << "2020" >>,
             collision_severity |-> << "Fatal" >>,
             type_of_collision |-> << "Broadside" >>,
             pcf_viol_category |-> << "Speeding" >>,
             bicycle_accident |-> << "Y" >>,
             pedestrian_accident |-> << "N" >>,
             motorcycle_accident |-> << "N" >>,
             weather_1 |-> << "Clear" >>, lighting |-> << "Daylight" >>,
             latitude_sandag |-> << "33.0" >>,
             longitude_sandag |-> << "-117.0" >>,
             number_killed |-> << "1" >>, number_injured |-> << "2" >>]
      [] src = "youth_opp_pass" ->
            [route |-> << "7" >>, service |-> << "Bus" >>,
             month |-> << "2020-06-01" >>, category |-> << "Total Rides" >>,
             rides |-> << "1.5" >>, community |-> << "Barrio Logan" >>,
             vehicle |-> << "Bus" >>]
      [] src = "flexible_fleet" ->
            [month |-> << "2020-06" >>, location_name |-> << "Downtown" >>,
             am_pm |-> << "Total" >>, weekday_weekend |-> << "Total" >>,
             value |-> << "1.5" >>, category |-> << "Trips" >>]
      [] src = "traffic_volumes" ->
            [street_name |-> << "A ST" >>, limits |-> << "01 ST - 02 ST" >>,
             total_count |-> << "3" >>, date_count |-> << "2019-05-01" >>]
      [] src = "traffic_collisions" ->
            [report_id |-> << "1" >>,
             date_time |-> << "2019-05-01 08:00:00" >>,
             police_beat |-> << "521" >>,
             address_road_primary |-> << "A ST" >>,
             charge_desc |-> << "TURNING MOVEMENTS" >>,
             injured |-> << "1" >>, killed |-> << "0" >>]

Variations(src) ==
    CASE src = "transit_ridership" ->
            { << "calenadr_year", << "n/a" >> >>, << "calenadr_year", Null >>,
              << "calenadr_year", << "2020" >> >>, << "route", << "8" >> >>,
              << "average_weekday_boardings", << "n/a" >> >> }
      [] src = "vmt_pems" ->
            { << "year", << "n/a" >> >>, << "year", Null >>,
              << "year", << "2020" >> >>, << "vmt", << "n/a" >> >> }
      [] src = "highway_travel_times" ->
            { << "year", << "n/a" >> >>, << "year", Null >>,
              << "year", << "2020" >> >>, << "mean", << "n/a" >> >> }
      [] src = "switrs_summary" ->
            { << "accident_year", << "n/a" >> >>, << "accident_year", Null >>,
              << "accident_year", << "2020" >> >>,
              << "number_of_collisions", << "n/a" >> >> }
      [] src = "switrs_detailed" ->
            { << "accident_year", << "n/a" >> >>,
              << "accident_year", << "2021" >> >>,
              << "collision_severity", << "NULL" >> >>,
              << "type_of_collision", << "NULL" >> >>,
              << "pcf_viol_category", << "NULL" >> >>,
              << "weather_1", << "NULL" >> >>, << "weather_1", Null >>,
              << "lighting", << "NULL" >> >>,
              << "bicycle_accident", Null >>,
              << "bicycle_accident", << "unknown" >> >>,
              << "pedestrian_accident", << "Y" >> >>,
              << "pedestrian_accident", << "unknown" >> >>,
              << "motorcycle_accident", Null >>,
              << "motorcycle_accident", << "" >> >>,
              << "latitude_sandag", << "32.4" >> >>,
              << "latitude_sandag", << "32.5" >> >>,
              << "latitude_sandag", << "33.3" >> >>,
              << "latitude_sandag", << "33.4" >> >>,
              << "latitude_sandag", << "40.0" >> >>,
              << "latitude_sandag", << "NULL" >> >>,
              << "latitude_sandag", Null >>,
              << "longitude_sandag", << "-117.8" >> >>,
              << "longitude_sandag", << "-117.7" >> >>,
              << "longitude_sandag", << "-116.8" >> >>,
              << "longitude_sandag", << "-116.7" >> >>,
              << "longitude_sandag", << "NULL" >> >>,
              << "number_killed", << "NULL" >> >> }
      [] src = "youth_opp_pass" ->
            { << "category", << "Scholar Rides" >> >>,
              << "category", Null >>,
              << "month", << "2020-07-01" >> >>, << "month", << "n/a" >> >>,
              << "rides", << "2.0" >> >>, << "rides", << "n/a" >> >>,
              << "route", << "8" >> >>, << "community", Null >>,
              << "community", << "Otay Mesa" >> >> }
      [] src = "flexible_fleet" ->
            { << "am_pm", << "AM" >> >>, << "am_pm", Null >>,
              << "weekday_weekend", << "Weekday" >> >>,
              << "value", << "2.0" >> >>, << "value", << "n/a" >> >>,
              << "month", << "2020-07" >> >>,
              << "location_name", << "Oceanside" >> >>,
              << "category", << "Riders" >> >> }
      [] src = "traffic_volumes" ->
            { << "total_count", << "n/a" >> >>, << "total_count", Null >>,
              << "total_count", << "2" >> >>,
              << "date_count", << "n/a" >> >>, << "date_count", Null >>,
              << "date_count", << "2020-06-01" >> >> }
      [] src = "traffic_collisions" ->
            { << "date_time", << "n/a" >> >>, << "date_time", Null >>,
              << "date_time", << "2020-06-01 17:00:00" >> >>,
              << "injured", << "n/a" >> >>, << "killed", << "1" >> >> }

SpecIndexOf(a) == CHOOSE i \in 1..Len(AggSpecs) : AggSpecs[i].name = a

RowSourceOf(a) == LoaderSql(SpecOf(a).table).src

RowSources == { LoaderSql(t).src : t \in RowTables }

RawRecords(src) ==
    { BaseRecord(src) }
    \cup { [BaseRecord(src) EXCEPT ![v[1]] = v[2]] : v \in Variations(src) }

RawFiles(src) ==
    UNION { [1..n -> RawRecords(src)] : n \in 0..MaxRecords }

RowTableOf(src) == CHOOSE t \in RowTables : LoaderSql(t).src = src

\* data/raw holds one file, whose content is known record by record.
InitRows ==
    /\ raw = [s \in Sources |-> 0]
    /\ dbs = [d \in DbPaths |-> [t \in Tables |-> NoTable]]
    /\ agg = [a \in AggNames |-> NoFile]
    /\ startRaw = raw
    /\ InitProcess
    /\ \E src \in RowSources : \E recs \in RawFiles(src) :
           rows = [NoRows EXCEPT !.src = src, !.raw = recs]

\* transform(): the loader of the file's table.  An exception from the
\* CREATE TABLE statement is not caught anywhere: it ends transform().
LoadRecords ==
    /\ rows.src # "none"
    /\ rows.loaded = "no"
    /\ LET r == LoadRows(RowTableOf(rows.src), rows.raw)
       IN  rows' = [rows EXCEPT
                       !.loaded = IF r.raised THEN "raised" ELSE "yes",
                       !.table = r.table]
    /\ UNCHANGED pipelineVars

\* transform(): one _try_agg call of _build_aggregations on the table.
AggregateRecords(a) ==
    /\ rows.loaded = "yes"
    /\ SpecOf(a).table = RowTableOf(rows.src)
    /\ a \notin DOMAIN rows.out
    /\ \A b \in AggNames :
           (SpecOf(b).table = SpecOf(a).table /\ SpecIndexOf(b) < SpecIndexOf(a))
               => b \in DOMAIN rows.out
    /\ \E w \in AggRows(a, rows.table) :
           rows' = [rows EXCEPT !.out = @ @@ (a :> w)]
    /\ UNCHANGED pipelineVars

\* The snapshots whose query keeps one rollup category of its table
RollupSnapshots == {"youth_pass_trends", "flex_fleet_trends"}

\* A file is put under a rollup snapshot's name by a query that lacks the
\* rollup filter: its totals are taken over the rows of every category.
OverwriteRows(a) ==
    /\ a \in RollupSnapshots
    /\ rows.src = LoaderSql(SpecOf(a).table).src
    /\ a \in DOMAIN rows.out
    /\ a \notin rows.hand
    /\ \E w \in Results([AggSql(a) EXCEPT !.where = << >>], rows.table) :
           rows' = [rows EXCEPT !.out[a] = w, !.hand = @ \cup {a}]
    /\ UNCHANGED pipelineVars

NextRows ==
    \/ LoadRecords
    \/ \E a \in AggNames : AggregateRecords(a)
    \/ \E a \in RollupSnapshots : OverwriteRows(a)

SpecRows == InitRows /\ [][NextRows]_vars

(***************************************************************************)
(* Properties of the pipeline (checked under Spec).                        *)
(***************************************************************************)
FullRun ==
    << "ingest", "ingest.ret", "transform", "transform.ret", "validate",
       "validate.ret" >>

IsPrefix(p, q) == Len(p) <= Len(q) /\ p = SubSeq(q, 1, Len(p))

Requested == { s \in Sources : got[s] # "none" }

BuildRuns == { i \in 1..Len(history) : history[i].entry = "build" }

InBuild == entry = "build"

\* C1 (as amended): in an unforced ingest run, a source whose raw snapshot
\* existed when the run started gets no request and keeps its content; the
\* run issues requests only for sources whose snapshot was absent at its
\* start, so none at all when every snapshot was there.
C1_CachedSourcesUntouched ==
    (InBuild /\ ~force) =>
        /\ \A s \in Sources :
               RawExists(startRaw[s]) =>
                   got[s] = "none" /\ raw[s] = startRaw[s]
        /\ Requested \subseteq { s \in Sources : ~RawExists(startRaw[s]) }

\* A second unforced run whose ingest loop has finished over a fully cached
\* corpus.
C1_Witness ==
    /\ InBuild /\ ~force
    /\ Cardinality(BuildRuns) = 2
    /\ idx > Len(Catalog)
    /\ \A s \in Sources : RawExists(startRaw[s]) /\ raw[s] = startRaw[s]
    /\ Requested = {}

\* C1 as stated: the above, and of two unforced ingest runs that both ran
\* to their end, the second performs zero network calls.
C1_Original ==
    /\ C1_CachedSourcesUntouched
    /\ (/\ InBuild
        /\ Cardinality(BuildRuns) = 2
        /\ \A i \in BuildRuns : ~history[i].force
        /\ \E i \in BuildRuns : i < Len(history) /\ history[i].ingested)
       => Requested = {}

\* C2: a 403 skips only its own source.  In a build run whose requests were
\* answered by nothing worse than 403, ingest never raises, and once the
\* process has ended every source was visited, exactly the 403 sources are
\* missing from the returned list, and transform and validate both ran.
C2_ForbiddenSkipsOnlyThatSource ==
    (/\ InBuild
     /\ \E s \in Sources : got[s] = "403"
     /\ \A s \in Sources : got[s] \in {"none", "200", "403"})
    => /\ err = "none"
       /\ Len(paths) = (idx - 1) - Cardinality({ s \in Sources : got[s] = "403" })
       /\ \A s \in Sources : got[s] = "403" => s \notin Range(paths)
       /\ pc = "done" =>
             /\ idx > Len(Catalog)
             /\ Range(paths) = Sources \ { s \in Sources : got[s] = "403" }
             /\ stages = FullRun

\* A finished build run in which a source that is not the last got a 403.
C2_Witness ==
    /\ InBuild /\ pc = "done"
    /\ \E i \in 1..(Len(Catalog) - 1) : got[Catalog[i]] = "403"
    /\ stages = FullRun
    /\ exit # NoStatus

\* C3: any other failure aborts at once.  As soon as a request of a build
\* run was answered by a status other than 200/403 or by a transport error,
\* the process has ended with a non-zero status, the failing source is the
\* last one visited, and no stage after ingest was entered.
C3_OtherFailuresAbort ==
    (/\ InBuild
     /\ \E s \in Sources : got[s] \in {"500", "ConnectError", "ReadError"})
    => /\ pc = "done"
       /\ err # "none"
       /\ exit # NoStatus /\ exit # 0
       /\ got[Catalog[idx]] \in {"500", "ConnectError", "ReadError"}
       /\ \A j \in (idx + 1)..Len(Catalog) : got[Catalog[j]] = "none"
       /\ \A j \in (idx + 1)..Len(Catalog) : Catalog[j] \notin Range(paths)
       /\ stages = << "ingest" >>

\* A build run ended by a 500 on a source that has sources after it.
C3_Witness ==
    /\ InBuild /\ pc = "done"
    /\ idx < Len(Catalog)
    /\ got[Catalog[idx]] = "500"
    /\ stages = << "ingest" >>

\* C4: the exit status.  A build process whose validate() returned a fail
\* count above zero ends with status 1; a build process ends with status 0
\* only after all three stages returned with fail count 0; a validate
\* process whose validate() returned ends with 1 iff the count is above 0.
C4_ExitStatus ==
    /\ (InBuild /\ returned # NoStatus /\ returned > 0) => exit = 1
    /\ (InBuild /\ exit = 0) =>
           /\ stages = FullRun
           /\ returned = 0
           /\ err = "none"
    /\ (entry = "validate" /\ returned # NoStatus) =>
           /\ exit \in {0, 1}
           /\ exit = 1 <=> returned > 0

\* A build process that went through all three stages and exited 1 on
\* validation failures.
C4_Witness ==
    /\ InBuild /\ pc = "done"
    /\ stages = FullRun
    /\ returned > 0
    /\ exit = 1

\* C5: strict stage order.  The calls and returns of a build process are
\* always a prefix of ingest, transform, validate (each called after the
\* previous one returned, none twice), and the stage in progress is the
\* last one called.
C5_StageOrder ==
    InBuild =>
        /\ IsPrefix(stages, FullRun)
        /\ pc \in {"ingest", "transform", "validate"} =>
               stages[Len(stages)] = pc
        /\ "transform" \in Range(stages) => idx > Len(Catalog)

\* A build process inside validate(), after ingest and transform returned.
C5_Witness ==
    /\ InBuild /\ pc = "validate"
    /\ stages = SubSeq(FullRun, 1, 5)

(***************************************************************************)
(* Properties of the stores over several runs (checked under SpecStore).   *)
(***************************************************************************)
SpecIndex(a) == CHOOSE i \in 1..Len(AggSpecs) : AggSpecs[i].name = a

TableOf(a) == SpecOf(a).table

Transformed == trun > 0

\* C6 (as stated): in every transform run, each canonical table that an
\* aggregation reads was built in that same run from the raw snapshot on
\* disk at the time; when a source's raw snapshot is absent at the start of
\* the run, aggregations of that run find no table for that source.
C6_TablesBuiltFresh ==
    Transformed =>
        \A a \in AggNames :
            LET t == tlog.tables[TableOf(a)]
                p == tlog.raw[LoaderOf(TableOf(a)).src]
            IN  /\ t.exists => (t.by = trun /\ RawExists(p) /\ t.src = p)
                /\ ~RawExists(p) => ~t.exists

\* C7 (as stated): after a transform run, every published snapshot file is
\* one written by that run or is absent.
C7_NoStaleSnapshot ==
    (Transformed /\ ~tlog.raised) =>
        \A a \in AggNames : tlog.after[a].exists => tlog.after[a].by = trun

\* C8: a spec whose table is missing is skipped and nothing else: the run
\* does not raise, the skipped spec's file is left as it was, and every
\* spec whose table is there has its snapshot written by this run.
C8_MissingTableSkipsOnlyThatSpec ==
    Transformed =>
        /\ ~tlog.raised
        /\ \A a \in AggNames :
               IF tlog.tables[TableOf(a)].exists
               THEN /\ tlog.after[a].exists
                    /\ tlog.after[a].by = trun
                    /\ tlog.after[a].src = tlog.tables[TableOf(a)].src
               ELSE tlog.after[a] = tlog.before[a]

\* A run in which a spec was skipped for want of its table and a spec later
\* in the list was written all the same.
C8_Witness ==
    /\ Transformed
    /\ \E a, b \in AggNames :
           /\ SpecIndex(a) < SpecIndex(b)
           /\ ~tlog.tables[TableOf(a)].exists
           /\ tlog.tables[TableOf(b)].exists
           /\ tlog.after[b].by = trun

(***************************************************************************)
(* Properties of the gate (checked under SpecGate).                        *)
(***************************************************************************)
\* Every _check call sections 1 to 9 would make on dir, were no query to
\* raise, and whether section 10 makes its one call.
AllProbes(dir) ==
    ExistenceProbes(dir) \o RowCountProbes(dir) \o YearRangeProbes(dir)
    \o SignProbes(dir) \o BoundsProbes(dir) \o NullStringProbes(dir)
    \o DoubleCountProbes(dir) \o ColumnProbes(1, dir) \o SizeProbes(dir)

OverlapChecked(dir) == Cardinality(OverlapPresent(dir)) >= 2

ApplicableChecks(dir) ==
    Cardinality({ i \in 1..Len(AllProbes(dir)) : AllProbes(dir)[i].applies })
    + (IF OverlapChecked(dir) THEN 1 ELSE 0)

\* No check that reads snapshot a fails on dir: a's own checks, the total
\* size, and the year overlap when a is one of its three snapshots.
NoFailingCheckReads(a, dir) ==
    /\ \A i \in 1..Len(AllProbes(dir)) :
           LET p == AllProbes(dir)[i]
           IN  (p.applies /\ p.file \in {a, ""}) => p.ok
    /\ (a \in Range(overlap_names) /\ OverlapChecked(dir)) =>
           CommonYears(dir) >= MinOverlapYears

\* The two latest validation runs saw the same directory but for the
\* expected snapshot a, there for the earlier run and removed for the later.
RemovedBetween(a) ==
    /\ a \in Range(expected_aggs)
    /\ prevV.dir[a].exists
    /\ lastV.dir = [prevV.dir EXCEPT ![a] = NoFile]

C10_ValidationNeverAborts ==
    fam > 0 =>
        /\ fam = Len(CheckFamilies) + 1
        /\ err = "none"
        /\ returned = counters.failed
        /\ counters.passed + counters.failed = ApplicableChecks(lastV.dir)

\* A validation run on a directory with a snapshot that lacks a column,
\* ended by the exception of the query that names the column.
C10_Witness ==
    /\ fam \in 1..Len(CheckFamilies)
    /\ err = "BinderException"
    /\ returned = NoStatus
    /\ counters.passed + counters.failed < ApplicableChecks(lastV.dir)
    /\ \E a \in AggNames :
           lastV.dir[a].exists /\ NamedColumns(a) \ lastV.dir[a].cols # {}

\* The _check calls of dir's probes that come out as [FAIL], by file.
FailedFiles(probes) ==
    { probes[i].file : i \in { j \in 1..Len(probes) :
                                  probes[j].applies /\ ~probes[j].ok } }

AbsentNames(dir) == { a \in AggNames : ~dir[a].exists }

\* C11 (as stated): a validation run records a failed existence check for
\* each of the 13 snapshot names whose file is absent.
C11_ExistenceCoversAll ==
    fam > 0 =>
        AbsentNames(lastV.dir) \subseteq FailedFiles(ExistenceProbes(lastV.dir))

\* A validation run that returns zero failures on a directory from which
\* youth_pass_communities.parquet is missing.
C11_Witness ==
    /\ fam = Len(CheckFamilies) + 1
    /\ returned = 0
    /\ AbsentNames(lastV.dir) = {"youth_pass_communities"}

WithinSlack(x, y) == x - y <= YearSlack /\ y - x <= YearSlack

\* C12 (as stated): the year-range check of a snapshot with years passes
\* exactly when its minimum year is within 2 years of lo and its maximum
\* year within 2 years of hi.
C12_YearRangeTwoSided ==
    fam > 3 =>
        \A i \in 1..Len(year_checks) :
            LET c == year_checks[i]
                f == lastV.dir[c.name]
                p == YearRangeProbes(lastV.dir)[i]
            IN  (p.applies /\ f.ymin <= f.ymax) =>
                    (p.ok <=> (/\ WithinSlack(f.ymin, c.lo)
                               /\ WithinSlack(f.ymax, c.hi)))

\* A validation run that returns zero failures on a directory in which a
\* snapshot starts more than 2 years before its expected range.
C12_Witness ==
    /\ fam = Len(CheckFamilies) + 1
    /\ returned = 0
    /\ \E i \in 1..Len(year_checks) :
           LET f == lastV.dir[year_checks[i].name]
           IN  f.exists /\ f.ymin < year_checks[i].lo - YearSlack

\* C19: in a validation run that returns, every snapshot that is there
\* without a column the serving-layer queries read from it has a failed
\* column check.
C19_SchemaCompatibility ==
    lastV.ret # NoStatus =>
        \A i \in 1..Len(serving_cols) :
            LET f == lastV.dir[serving_cols[i].name]
            IN  (f.exists /\ serving_cols[i].cols \ f.cols # {}) =>
                    \E j \in 1..Len(ColumnProbes(1, lastV.dir)) :
                        LET p == ColumnProbes(1, lastV.dir)[j]
                        IN  /\ p.file = serving_cols[i].name
                            /\ p.applies
                            /\ ~p.ok

\* ridership_trends.parquet has no column num_routes, which
\* get_ridership_trends selects, and validation returns no failure.
C19_Witness ==
    /\ lastV.ret = 0
    /\ lastV.dir = agg
    /\ agg["ridership_trends"].exists
    /\ "num_routes" \notin agg["ridership_trends"].cols
    /\ "num_routes" \in ServingColumns("ridership_trends")

\* SELECT DISTINCT year FROM a snapshot; a missing snapshot has no years.
YearsOf(f) == IF f.exists THEN f.ymin..f.ymax ELSE {}

\* The years all snapshots of P have
SharedYears(dir, P) ==
    { y \in UNION { YearsOf(dir[n]) : n \in P } :
          \A n \in P : y \in YearsOf(dir[n]) }

\* The failures of a returned run that sections 1 to 9 do not account for:
\* the failed overlap checks.
OverlapFailures(v) ==
    LET probes == AllProbes(v.dir)
    IN  v.ret - Cardinality({ i \in 1..Len(probes) :
                                  probes[i].applies /\ ~probes[i].ok })

\* C20 as stated: a run that returns records a failed overlap check
\* whenever the three snapshots do not share 3 years, a missing snapshot
\* sharing none.
C20_Original ==
    ( /\ lastV.ret # NoStatus
      /\ Cardinality(SharedYears(lastV.dir, Range(overlap_names)))
             < MinOverlapYears )
        => OverlapFailures(lastV) = 1

\* C20 amended: a run that returns records a failed overlap check exactly
\* when at least two of the three snapshots exist and those that exist
\* share fewer than 3 years; with fewer than two of them no overlap check
\* is made.
C20_OverlapOfPresent ==
    lastV.ret # NoStatus =>
        LET P == { n \in Range(overlap_names) : lastV.dir[n].exists }
        IN  /\ OverlapFailures(lastV) \in {0, 1}
            /\ OverlapFailures(lastV) = 1
                   <=> ( /\ Cardinality(P) >= 2
                         /\ Cardinality(SharedYears(lastV.dir, P))
                                < MinOverlapYears )

\* One of the three snapshots is missing and the other two share fewer than
\* 3 years: the run records a failed overlap check.
C20_Witness ==
    /\ lastV.ret # NoStatus
    /\ lastV.dir = agg
    /\ Cardinality({ n \in Range(overlap_names) : agg[n].exists }) = 2
    /\ OverlapFailures(lastV) = 1

(***************************************************************************)
(* Properties of the loaders and aggregations record by record (checked    *)
(* under SpecRows).                                                        *)
(***************************************************************************)
\* The tables with a year column, and the expression that column is
\* computed by.
YearTables ==
    { t \in RowTables :
        \E i \in 1..Len(LoaderSql(t).select) :
            LoaderSql(t).select[i].as = "year" }

YearExpr(t) ==
    LoaderSql(t).select[CHOOSE i \in 1..Len(LoaderSql(t).select) :
                            LoaderSql(t).select[i].as = "year"]

KeyParses(t, rec) == Convert(YearExpr(t).conv, rec[YearExpr(t).col]).v # Null

Loaded == rows.loaded = "yes"

\* C13 (as stated): a year-keyed table holds exactly the raw records whose
\* year/date key parses, so every row of it has a year.
C13_RowDrop ==
    (Loaded /\ RowTableOf(rows.src) \in YearTables) =>
        LET t    == RowTableOf(rows.src)
            kept == SelectSeq(rows.raw, LAMBDA r : KeyParses(t, r))
        IN  /\ \A i \in 1..Len(rows.table) : rows.table[i]["year"] # Null
            /\ rows.table =
                   [i \in 1..Len(kept) |-> Project(LoaderSql(t), kept[i])]

\* A traffic_volumes table holding a row without year, loaded from a file
\* of two records of which one has a date that does not parse.
C13_Witness ==
    /\ Loaded
    /\ rows.src = "traffic_volumes"
    /\ Len(rows.raw) = 2
    /\ \E i \in 1..Len(rows.table) : rows.table[i]["year"] = Null

FlagColumns ==
    { << "is_bicycle", "bicycle_accident" >>,
      << "is_pedestrian", "pedestrian_accident" >>,
      << "is_motorcycle", "motorcycle_accident" >> }

FlagParses(v) == v # Null /\ v[1] \in DOMAIN BooleanLiterals

\* C14 (as stated): loading detailed collisions completes, no row of the
\* table has an absent flag, and a record whose raw flag is absent or does
\* not parse is loaded with the flag false.
C14_FlagsDefaultFalse ==
    (rows.src = "switrs_detailed" /\ rows.loaded # "no") =>
        LET kept == SelectSeq(rows.raw,
                              LAMBDA r : KeyParses("switrs_detailed", r))
        IN  /\ rows.loaded = "yes"
            /\ Len(rows.table) = Len(kept)
            /\ \A i \in 1..Len(rows.table) : \A f \in FlagColumns :
                   /\ rows.table[i][f[1]] \in { << TRUE >>, << FALSE >> }
                   /\ ~FlagParses(kept[i][f[2]]) =>
                          rows.table[i][f[1]] = << FALSE >>

\* The load of a file with a record whose flag is a text the cast does not
\* understand has ended in an exception.
C14_Witness ==
    /\ rows.src = "switrs_detailed"
    /\ rows.loaded = "raised"
    /\ \E i \in 1..Len(rows.raw) : \E f \in FlagColumns :
           /\ KeyParses("switrs_detailed", rows.raw[i])
           /\ rows.raw[i][f[2]] # Null
           /\ ~FlagParses(rows.raw[i][f[2]])
\* Raw categorical fields of a detailed-collision record and the snapshot
\* columns they are published in.
CategoricalColumns ==
    { << "collision_severity", "collision_severity" >>,
      << "type_of_collision", "type_of_collision" >>,
      << "weather", "weather_1" >>, << "lighting", "lighting" >> }

Published(a) ==
    /\ rows.src = RowSourceOf(a)
    /\ a \in DOMAIN rows.out
    /\ a \notin rows.hand

\* The rows of snapshot a as a set.
RowsOf(a) == Range(rows.out[a])

\* C15: a detailed-collision record kept by the loader whose categorical
\* field is the text "NULL" is counted in a collision_by_type row where that
\* field is absent, and no row of collision_by_type or collision_map_points
\* holds the text "NULL" in a categorical column.
C15_SentinelNormalized ==
    /\ Published("collision_by_type") =>
           LET kept == SelectSeq(rows.raw,
                                 LAMBDA r : KeyParses("switrs_detailed", r))
           IN  /\ \A row \in RowsOf("collision_by_type") :
                      \A f \in CategoricalColumns : row[f[1]] # << "NULL" >>
               /\ \A i \in 1..Len(kept) :
                      \E row \in RowsOf("collision_by_type") :
                          /\ row.year = rows.table[i].year
                          /\ \A f \in CategoricalColumns :
                                 row[f[1]] = IF kept[i][f[2]] = << "NULL" >>
                                             THEN Null
                                             ELSE kept[i][f[2]]
    /\ Published("collision_map_points") =>
           \A row \in RowsOf("collision_map_points") :
               /\ row.collision_severity # << "NULL" >>
               /\ row.type_of_collision # << "NULL" >>

\* A record with weather_1 = "NULL" was loaded and aggregated: its by-type
\* row has no weather; and a record with the severity "NULL" is a map point.
C15_Witness ==
    /\ Published("collision_by_type")
    /\ Published("collision_map_points")
    /\ \E i \in 1..Len(rows.raw) :
           /\ rows.raw[i].weather_1 = << "NULL" >>
           /\ KeyParses("switrs_detailed", rows.raw[i])
    /\ \E row \in RowsOf("collision_by_type") : row.weather = Null
    /\ \E i \in 1..Len(rows.raw) :
           rows.raw[i].collision_severity = << "NULL" >>
    /\ \E row \in RowsOf("collision_map_points") :
           row.collision_severity = Null

\* The sum of the DOUBLE values of column col over raw records, as SUM
\* gives it: values that do not parse are skipped, and the sum of no value
\* is absent.
RECURSIVE TotalOf(_, _)
TotalOf(recs, col) ==
    IF recs = << >>
    THEN 0
    ELSE LET v == TryCast(DoubleLiterals, Head(recs)[col])
         IN  (IF v = Null THEN 0 ELSE v[1]) + TotalOf(Tail(recs), col)

RawSum(recs, col) ==
    IF \A i \in 1..Len(recs) : TryCast(DoubleLiterals, recs[i][col]) = Null
    THEN Null
    ELSE << TotalOf(recs, col) >>

\* Raw youth-pass records of the canonical rollup category
IsTotalRides(r) == r.category = << "Total Rides" >>

\* Raw flex-fleet records of the canonical time-of-day/day-type rollup
IsTotalTotal(r) == r.am_pm = << "Total" >> /\ r.weekday_weekend = << "Total" >>

FlexKey(r) ==
    [month |-> r.month, location_name |-> r.location_name,
     category |-> r.category]

\* C16: youth_pass_trends has one row per month of the raw "Total Rides"
\* records and its total_rides is the sum of rides over exactly those
\* records; flex_fleet_trends has one row per month, location and category
\* of the raw records with am_pm = weekday_weekend = "Total" and its
\* total_value is the sum of value over exactly those records.
C16_NoDoubleCounting ==
    /\ Published("youth_pass_trends") =>
           LET month(r) == TryCast(DateLiterals, r.month)
               totals == SelectSeq(rows.raw, IsTotalRides)
               of(m) == SelectSeq(totals, LAMBDA r : month(r) = m)
               out == RowsOf("youth_pass_trends")
           IN  /\ { row.month : row \in out }
                      = { month(totals[i]) : i \in 1..Len(totals) }
               /\ \A r1, r2 \in out : r1.month = r2.month => r1 = r2
               /\ \A row \in out :
                      row.total_rides = RawSum(of(row.month), "rides")
    /\ Published("flex_fleet_trends") =>
           LET totals == SelectSeq(rows.raw, IsTotalTotal)
               of(k) == SelectSeq(totals, LAMBDA r : FlexKey(r) = k)
               out == RowsOf("flex_fleet_trends")
           IN  /\ { FlexKey(row) : row \in out }
                      = { FlexKey(totals[i]) : i \in 1..Len(totals) }
               /\ \A r1, r2 \in out : FlexKey(r1) = FlexKey(r2) => r1 = r2
               /\ \A row \in out :
                      row.total_value = RawSum(of(FlexKey(row)), "value")

\* The raw youth-pass file holds a "Total Rides" record and a record of
\* another category for the same month, and the month's published total is
\* the rides of the "Total Rides" record alone.
C16_Witness ==
    /\ Published("youth_pass_trends")
    /\ \E i, j \in 1..Len(rows.raw) :
           /\ IsTotalRides(rows.raw[i])
           /\ rows.raw[j].category = << "Scholar Rides" >>
           /\ rows.raw[i].month = rows.raw[j].month
           /\ TryCast(DoubleLiterals, rows.raw[j].rides) # Null
           /\ \E row \in RowsOf("youth_pass_trends") :
                  /\ row.month = TryCast(DateLiterals, rows.raw[i].month)
                  /\ row.total_rides = TryCast(DoubleLiterals, rows.raw[i].rides)
                  /\ row.total_rides # Null

\* A raw detailed-collision record whose coordinates are both present, parse
\* as numbers and lie in the regional box, bounds included (in tenths).
InBox(r) ==
    LET lat == TryCast(DoubleLiterals, r.latitude_sandag)
        lon == TryCast(DoubleLiterals, r.longitude_sandag)
    IN  /\ lat # Null /\ lon # Null
        /\ 325 <= lat[1] /\ lat[1] <= 333
        /\ 0 - 1177 <= lon[1] /\ lon[1] <= 0 - 1168

\* The collisions counted by the rows of a collision_by_type snapshot
RECURSIVE NumCollisions(_)
NumCollisions(S) ==
    IF S = {}
    THEN 0
    ELSE LET row == CHOOSE x \in S : TRUE
         IN  row.num_collisions[1] + NumCollisions(S \ {row})

\* C17: the rows of collision_map_points are, in order, the records with a
\* parsed year whose latitude and longitude are present and inside the box
\* 32.5..33.3 by -117.7..-116.8, bounds included; collision_by_type counts
\* every record with a parsed year, in the box or not.
C17_GeographicFilter ==
    LET kept == SelectSeq(rows.raw, LAMBDA r : KeyParses("switrs_detailed", r))
        inside == SelectSeq(kept, InBox)
    IN  /\ Published("collision_map_points") =>
               /\ Len(rows.out["collision_map_points"]) = Len(inside)
               /\ \A i \in 1..Len(inside) :
                      LET row == rows.out["collision_map_points"][i]
                      IN  /\ row.latitude
                                = TryCast(DoubleLiterals,
                                          inside[i].latitude_sandag)
                          /\ row.longitude
                                = TryCast(DoubleLiterals,
                                          inside[i].longitude_sandag)
                          /\ row.year
                                = TryCast(IntegerLiterals,
                                          inside[i].accident_year)
        /\ Published("collision_by_type") =>
               NumCollisions(RowsOf("collision_by_type")) = Len(kept)

\* A record with latitude 40.0 and a record on the edge of the box (latitude
\* 32.5) were loaded: the map points hold the second alone, and the by-type
\* snapshot counts both.
C17_Witness ==
    /\ Published("collision_map_points")
    /\ Published("collision_by_type")
    /\ Len(rows.raw) = 2
    /\ \A i \in 1..2 : KeyParses("switrs_detailed", rows.raw[i])
    /\ rows.raw[1].latitude_sandag = << "40.0" >>
    /\ rows.raw[2].latitude_sandag = << "32.5" >>
    /\ Len(rows.out["collision_map_points"]) = 1
    /\ rows.out["collision_map_points"][1].latitude = << 325 >>
    /\ NumCollisions(RowsOf("collision_by_type")) = 2

(***************************************************************************)
(* Properties of repeated validation (checked under SpecSession).          *)
(***************************************************************************)
\* C18: a validation run changes no file of data/aggregated (nor any other
\* file), and two consecutive runs that return on the same snapshot
\* directory return the same fail count.
C18_ReadOnlyAndReset ==
    /\ [][pc = "validate" => UNCHANGED diskVars]_vars
    /\ [](( /\ prevV.ret # NoStatus
            /\ lastV.ret # NoStatus
            /\ prevV.dir = lastV.dir ) => lastV.ret = prevV.ret)

\* One process has called validate() twice on an unchanged directory with a
\* defect: both calls returned the same fail count, which is not zero.
C18_Witness ==
    /\ entry = "session"
    /\ pc = "done"
    /\ stages = << "validate", "validate.ret", "validate", "validate.ret" >>
    /\ prevV.dir = lastV.dir
    /\ lastV.dir = agg
    /\ prevV.ret > 0
    /\ lastV.ret = prevV.ret
    /\ counters.failed = lastV.ret

(***************************************************************************)
(* The gate's queries on the files followed row by row.                    *)
(***************************************************************************)
\* SELECT count(*) FROM the file of snapshot a
RowCount(a) == Len(rows.out[a])

\* SELECT count(*) ... WHERE latitude NOT BETWEEN 32.5 AND 33.3
\*                          OR longitude NOT BETWEEN -117.7 AND -116.8
\* over the rows of a file (in tenths): a row counts when one of the two
\* tests is true, and a test on an absent value is not.
OutOfBounds(file) ==
    Cardinality({ i \in 1..Len(file) :
        \/ /\ file[i].latitude # Null
           /\ file[i].latitude[1] < 325 \/ file[i].latitude[1] > 333
        \/ /\ file[i].longitude # Null
           /\ \/ file[i].longitude[1] < 0 - 1177
              \/ file[i].longitude[1] > 0 - 1168 })

\* data/aggregated as validate() finds it: what its count(*) queries
\* return for the files written so far.
RowsDir ==
    [a \in AggNames |->
        IF a \in DOMAIN rows.out
        THEN [Snapshot(a, 0, 0) EXCEPT
                 !.rows = RowCount(a),
                 !.oob = IF a = "collision_map_points"
                         THEN OutOfBounds(rows.out[a]) ELSE 0]
        ELSE NoFile]

\* The totals of the file under a rollup snapshot's name include rows of
\* another rollup category.
IncludesRollups(a) ==
    /\ a \in DOMAIN rows.out
    /\ a \in rows.hand
    /\ rows.out[a] \notin AggRows(a, rows.table)

\* C21: when the totals of youth_pass_trends or flex_fleet_trends include
\* rows of a rollup category other than the canonical one, the snapshot's
\* double-counting guard fails.
C21_GuardCatchesRollups ==
    \A a \in RollupSnapshots :
        IncludesRollups(a) =>
            \E i \in 1..Len(DoubleCountProbes(RowsDir)) :
                LET p == DoubleCountProbes(RowsDir)[i]
                IN  p.file = a /\ p.applies /\ ~p.ok

\* youth_pass_trends holds one month whose total adds the rides of a
\* "Scholar Rides" record to those of the "Total Rides" record, and its
\* guard passes.
C21_Witness ==
    /\ IncludesRollups("youth_pass_trends")
    /\ \E i, j \in 1..Len(rows.raw) :
           /\ IsTotalRides(rows.raw[i])
           /\ rows.raw[j].category = << "Scholar Rides" >>
           /\ rows.raw[i].month = rows.raw[j].month
    /\ \E row \in RowsOf("youth_pass_trends") : row.total_rides = << 30 >>
    /\ DoubleCountProbes(RowsDir)[1].applies
    /\ DoubleCountProbes(RowsDir)[1].ok

(***************************************************************************)
(* Further properties of ingest (checked under Spec).                      *)
(***************************************************************************)
\* C22: in a forced run every source the loops come to is requested,
\* whether or not its raw snapshot exists (so every source of the catalog
\* once ingest returns), and a source answered with 200 holds the payload
\* of this run; in an unforced run no raw snapshot that existed at the
\* start is overwritten.
C22_ForceBypassesCache ==
    /\ (InBuild /\ force) =>
           /\ \A i \in 1..Len(Catalog) :
                  (i < idx \/ (i = idx /\ err # "none")) =>
                      got[Catalog[i]] # "none"
           /\ "ingest.ret" \in Range(stages) => Requested = Sources
           /\ \A s \in Sources : got[s] = "200" => raw[s] = run
    /\ (InBuild /\ ~force) =>
           \A s \in Sources : RawExists(startRaw[s]) => raw[s] = startRaw[s]

\* A forced second run over a fully cached corpus has returned from ingest:
\* every source was requested and every raw snapshot is the new payload.
C22_Witness ==
    /\ InBuild /\ force
    /\ run = 2
    /\ "ingest.ret" \in Range(stages)
    /\ \A s \in Sources : startRaw[s] = 1 /\ got[s] = "200" /\ raw[s] = 2

\* The source was found cached or was downloaded by the current run.
Materialized(s) ==
    \/ got[s] = "200"
    \/ got[s] = "none" /\ RawExists(startRaw[s])

\* C24: the list ingest builds holds, in catalog order, exactly the sources
\* gone through that were found cached or were downloaded, so none that got
\* a 403; when ingest has returned that is every such source of the catalog
\* and each path on the list names a file that exists.
C24_ReturnedPaths ==
    InBuild =>
        /\ paths = SelectSeq(SubSeq(Catalog, 1, idx - 1), Materialized)
        /\ \A s \in Sources : got[s] = "403" => s \notin Range(paths)
        /\ "ingest.ret" \in Range(stages) =>
               /\ paths = SelectSeq(Catalog, Materialized)
               /\ \A s \in Range(paths) : RawExists(raw[s])
               /\ \A s \in Sources : s \in Range(paths) \/ got[s] = "403"

\* ingest has returned from a run in which one source got a 403 and the
\* others were downloaded: the list holds the others, in catalog order.
C24_Witness ==
    /\ InBuild
    /\ "ingest.ret" \in Range(stages)
    /\ \E s \in Sources :
           /\ got[s] = "403"
           /\ \A t \in Sources \ {s} : got[t] = "200"
           /\ paths = SelectSeq(Catalog, LAMBDA t : t # s)
    /\ \A t \in Range(paths) : RawExists(raw[t])

\* C25: every raw snapshot on disk holds a complete payload, and an
\* unforced run puts no partially written file on the list it returns.
C25_RawSnapshotsComplete ==
    /\ \A s \in Sources : RawExists(raw[s]) => RawComplete(raw[s])
    /\ (InBuild /\ ~force) =>
           \A s \in Range(paths) : RawComplete(raw[s])

\* A run was aborted by a transport error in the middle of a streamed CSV
\* download; the next, unforced run found the file, made no request for it
\* and returned its path, and the transform went on to read it.
C25_Witness ==
    /\ InBuild /\ ~force
    /\ run = 2
    /\ "transform" \in Range(stages)
    /\ \E s \in Sources :
           /\ IsCsv(s)
           /\ startRaw[s] = 0 - 1
           /\ raw[s] = 0 - 1
           /\ got[s] = "none"
           /\ s \in Range(paths)

\* C26: a request of a forced run that is answered with an error status,
\* 403 or another, leaves the source's raw snapshot as it was when the run
\* started.
C26_ErrorStatusKeepsSnapshot ==
    (InBuild /\ force) =>
        \A s \in Sources : got[s] \in {"403", "500"} => raw[s] = startRaw[s]

\* A forced run over a cached corpus got a 403 for one source and went on:
\* that source still holds the earlier run's payload, a later one the new.
C26_Witness ==
    /\ InBuild /\ force
    /\ run = 2
    /\ \E s, t \in Sources :
           /\ got[s] = "403" /\ startRaw[s] = 1 /\ raw[s] = 1
           /\ got[t] = "200" /\ startRaw[t] = 1 /\ raw[t] = 2

(***************************************************************************)
(* Row order of the snapshots (checked under SpecRows).                    *)
(***************************************************************************)
\* C23: the rows and the row order of every snapshot the transform writes
\* are determined by the raw file: the query can write no other file from
\* the same table.
C23_DeterministicOrder ==
    \A a \in AggNames :
        Published(a) => AggRows(a, rows.table) = { rows.out[a] }

\* traffic_volume_streets was written from two counts with the same
\* total_count and different dates, the later record first.
C23_Witness ==
    /\ Published("traffic_volume_streets")
    /\ Len(rows.table) = 2
    /\ rows.table[1].total_count = rows.table[2].total_count
    /\ rows.table[1].date_count # rows.table[2].date_count
    /\ Len(rows.out["traffic_volume_streets"]) = 2
    /\ rows.out["traffic_volume_streets"][1].date_count
           = rows.table[2].date_count
    /\ Cardinality(AggRows("traffic_volume_streets", rows.table)) = 2

(***************************************************************************)
(* The gate on the snapshots the transform writes (checked under SpecRows) *)
(***************************************************************************)
\* C27: the geographic-bounds check passes on every collision_map_points
\* file the transform writes: no row the aggregation keeps is counted as
\* out of bounds by the check's query.
C27_BoundsCheckPasses ==
    Published("collision_map_points") =>
        /\ OutOfBounds(rows.out["collision_map_points"]) = 0
        /\ \A i \in 1..Len(BoundsProbes(RowsDir)) :
               /\ BoundsProbes(RowsDir)[i].applies
               /\ BoundsProbes(RowsDir)[i].binds
               /\ BoundsProbes(RowsDir)[i].ok

\* The raw file holds a record outside the box and a record on its edge;
\* the snapshot keeps the second and the check passes.
C27_Witness ==
    /\ Published("collision_map_points")
    /\ Len(rows.table) = 2
    /\ \E i \in 1..2 : ~InBox(rows.raw[i])
    /\ Len(rows.out["collision_map_points"]) = 1
    /\ rows.out["collision_map_points"][1].longitude = << 0 - 1177 >>
    /\ BoundsProbes(RowsDir)[1].ok

\* The snapshots of the two city CSV files that carry a year column
CityYearSnapshots ==
    {"city_collision_trends", "traffic_volume_trends", "traffic_volume_streets"}

\* the records of the raw file whose date or timestamp parses
DatedRecords ==
    SelectSeq(rows.raw, LAMBDA r : KeyParses(RowTableOf(rows.src), r))

\* C28: no row of city_collision_trends, traffic_volume_trends or
\* traffic_volume_streets has an absent year, and a raw record whose date or
\* timestamp does not parse contributes nothing: the file is one the
\* aggregation writes from the records that do parse alone.
C28_NoAbsentYear ==
    \A a \in CityYearSnapshots :
        Published(a) =>
            /\ \A row \in RowsOf(a) : row.year # Null
            /\ rows.out[a] \in
                   AggRows(a, LoadRows(SpecOf(a).table, DatedRecords).table)

\* A traffic count whose date does not parse is in the table, with no year,
\* and the street snapshot made from the table has one row, the other's.
C28_Witness ==
    /\ Published("traffic_volume_streets")
    /\ Len(rows.raw) = 2
    /\ Len(rows.table) = 2
    /\ \E i \in 1..2 : rows.table[i].year = Null
    /\ Len(rows.out["traffic_volume_streets"]) = 1

(***************************************************************************)
(* The gate's counters (checked under SpecGate).                           *)
(***************************************************************************)
\* The _check calls made for snapshot a on dir that come out as verdict.
ChecksOf(a, dir, verdict) ==
    LET probes == AllProbes(dir)
    IN  Cardinality({ i \in 1..Len(probes) :
            /\ probes[i].file = a
            /\ probes[i].applies
            /\ probes[i].ok = verdict })

\* The [FAIL] lines of a run on dir that reaches the summary.
FailedChecks(dir) ==
    LET probes == AllProbes(dir)
    IN  Cardinality({ i \in 1..Len(probes) :
            probes[i].applies /\ ~probes[i].ok })
        + (IF OverlapChecked(dir) /\ CommonYears(dir) < MinOverlapYears
           THEN 1 ELSE 0)

\* C29: in a validation run an expected snapshot that is missing has one
\* check made for it, its existence check, which fails; every other check
\* for it is skipped and counts neither as passed nor as failed, so the
\* counters of a run that reaches the summary hold that one failure for it.
C29_MissingFailsOnce ==
    fam > 0 =>
        /\ \A a \in Range(expected_aggs) :
               ~lastV.dir[a].exists =>
                   /\ ChecksOf(a, lastV.dir, FALSE) = 1
                   /\ ChecksOf(a, lastV.dir, TRUE) = 0
                   /\ counters.failed >= 1
        /\ counters.failed >=
               Cardinality(AbsentNames(lastV.dir) \cap Range(expected_aggs))
        /\ lastV.ret # NoStatus =>
               /\ counters.failed = FailedChecks(lastV.dir)
               /\ counters.passed =
                      ApplicableChecks(lastV.dir) - FailedChecks(lastV.dir)

\* A run on the healthy directory without one of the snapshots that every
\* section but the last reads: one failure, everything else made passes.
C29_Witness ==
    /\ fam = Len(CheckFamilies) + 1
    /\ ~lastV.dir["ridership_trends"].exists
    /\ lastV.ret = 1
    /\ counters.failed = 1
    /\ counters.passed = ApplicableChecks(lastV.dir) - 1

\* The number of _check calls among the first n probes of sections 1 to 9.
Evaluated(probes, n) ==
    Cardinality({ i \in 1..n : probes[i].applies })

\* The first probe of sections 1 to 9 whose query raises, or none (0).
FirstRaising(probes) ==
    LET R == { i \in 1..Len(probes) : probes[i].applies /\ ~probes[i].binds }
    IN  IF R = {} THEN 0 ELSE CHOOSE i \in R : \A j \in R : i <= j

\* Sections 1 to 9 of validate() on dir, each with its probes in order.
Sections(dir) ==
    << ExistenceProbes(dir), RowCountProbes(dir), YearRangeProbes(dir),
       SignProbes(dir), BoundsProbes(dir), NullStringProbes(dir),
       DoubleCountProbes(dir), ColumnProbes(1, dir), SizeProbes(dir) >>

\* One section followed from counters c0 through its first n probes: the
\* counters hold c0's checks and the checks evaluated since, up to the
\* query that raises if there is one.
CountsEvaluated(probes, n, c0) ==
    LET r    == RunProbes(SubSeq(probes, 1, n), 1, c0)
        stop == FirstRaising(SubSeq(probes, 1, n))
    IN  /\ r.raised = (stop > 0)
        /\ r.c.passed + r.c.failed =
               c0.passed + c0.failed
               + Evaluated(probes, IF stop > 0 THEN stop - 1 ELSE n)
        /\ r.c.passed >= c0.passed
        /\ r.c.failed >= c0.failed
        /\ r.c.warnings = c0.warnings

\* The number of _check calls of a whole run on dir, to its summary or to
\* the query that raises.
ChecksMade(dir) ==
    LET probes == AllProbes(dir)
        stop   == FirstRaising(probes)
    IN  IF stop > 0
        THEN Evaluated(probes, stop - 1)
        ELSE Evaluated(probes, Len(probes))
             + (IF RunOverlap(dir, ZeroCounters).c # ZeroCounters
                THEN 1 ELSE 0)

\* C30: at every point of a validation run passed + failed is the number of
\* checks evaluated so far, each _check call adding one to exactly one of
\* the two counters; the value returned is the failed counter at the
\* summary; and the warning counter is 0 throughout.
C30_CounterBookkeeping ==
    /\ counters.warnings = 0
    /\ fam > 0 =>
           LET sections == Sections(lastV.dir)
           IN  /\ \A k \in 1..Len(sections) : \A n \in 0..Len(sections[k]) :
                      /\ CountsEvaluated(sections[k], n, ZeroCounters)
                      /\ CountsEvaluated(sections[k], n, counters)
               /\ counters.passed + counters.failed = ChecksMade(lastV.dir)
               /\ lastV.ret # NoStatus =>
                      /\ fam = Len(CheckFamilies) + 1
                      /\ lastV.ret = counters.failed
                      /\ returned = counters.failed

\* A run to the summary in which checks passed and checks failed, and a
\* skipped check left both counters alone.
C30_Witness ==
    /\ fam = Len(CheckFamilies) + 1
    /\ lastV.ret = counters.failed
    /\ counters.failed >= 2
    /\ counters.passed > 0
    /\ counters.warnings = 0
    /\ ChecksMade(lastV.dir) < Len(AllProbes(lastV.dir)) + 1
    /\ counters.passed + counters.failed = ChecksMade(lastV.dir)

====
